---- MODULE Spec2Model ----
(***************************************************************************)
(* A model of neon's serde transcoder (crates/neon-runtime/src/napi/serde):*)
(* the Serializer and Deserializer, their accessors and sub-serializers,   *)
(* the error type, and the N-API wrappers of js.rs over a small model of   *)
(* the JavaScript heap.                                                    *)
(*                                                                         *)
(* Numbers keep their width.  TLC's integers are 32 bits wide, so a        *)
(* magnitude is three limbs <<a, b, c>> standing for a*2^48 + b*2^24 + c.  *)
(* A Rust integer is [neg, mag]; an f64 is [c, neg, mag, frac] with c one  *)
(* of "fin", "inf", "nan" and frac the fractional part in tenths.          *)
(***************************************************************************)
EXTENDS Integers, Sequences, FiniteSets, TLC

VARIABLES op, res, env, sess, hist

vars == <<op, res, env, sess, hist>>

(***************************************************************************)
(* Bounds of the model.                                                    *)
(***************************************************************************)
\* Longest Vec, and longest session of accessor or serializer calls.
MaxLen == 2
\* The N-API calls of one operation among which one may be made to fail.
MaxFailAt == 2
\* Accessor or serializer calls in one map session.
MaxCalls == 3
\* Changes JavaScript makes to an object while a session reads it.
MaxMutations == 1

(***************************************************************************)
(* Limb arithmetic.                                                        *)
(***************************************************************************)
LimbBase == 2^24
LimbMax == LimbBase - 1

Mag(a, b, c) == <<a, b, c>>
MagZero == Mag(0, 0, 0)

MagLt(x, y) ==
  \/ x[1] < y[1]
  \/ x[1] = y[1] /\ x[2] < y[2]
  \/ x[1] = y[1] /\ x[2] = y[2] /\ x[3] < y[3]

MagLe(x, y) == x = y \/ MagLt(x, y)

\* x + 1, with carries
MagInc(x) ==
  IF x[3] < LimbMax THEN Mag(x[1], x[2], x[3] + 1)
  ELSE IF x[2] < LimbMax THEN Mag(x[1], x[2] + 1, 0)
  ELSE Mag(x[1] + 1, 0, 0)

\* number of significant bits of a limb
BitLen(n) == CHOOSE k \in 0..30 : n < 2^k /\ (k = 0 \/ n >= 2^(k - 1))

(***************************************************************************)
(* Rust integers and doubles.                                              *)
(***************************************************************************)
IntTypes == {"i8", "i16", "i32", "i64", "u8", "u16", "u32", "u64"}
Signed(T) == T \in {"i8", "i16", "i32", "i64"}

\* max_of!(T), as a magnitude
MaxMag(T) ==
  CASE T = "i8" -> Mag(0, 0, 2^7 - 1)
    [] T = "i16" -> Mag(0, 0, 2^15 - 1)
    [] T = "i32" -> Mag(0, 2^7 - 1, LimbMax)
    [] T = "i64" -> Mag(2^15 - 1, LimbMax, LimbMax)
    [] T = "u8" -> Mag(0, 0, 2^8 - 1)
    [] T = "u16" -> Mag(0, 0, 2^16 - 1)
    [] T = "u32" -> Mag(0, 2^8 - 1, LimbMax)
    [] T = "u64" -> Mag(2^16 - 1, LimbMax, LimbMax)
    [] T = "usize" -> Mag(2^16 - 1, LimbMax, LimbMax)

\* the magnitude of min_of!(T)
MinMag(T) == IF Signed(T) THEN MagInc(MaxMag(T)) ELSE MagZero

MkInt(neg, mag) == [neg |-> neg /\ mag # MagZero, mag |-> mag]
IntMax(T) == MkInt(FALSE, MaxMag(T))
IntMin(T) == MkInt(TRUE, MinMag(T))

IntLe(x, y) ==
  IF x.neg /\ ~y.neg THEN TRUE
  ELSE IF ~x.neg /\ y.neg THEN FALSE
  ELSE IF x.neg THEN MagLe(y.mag, x.mag)
  ELSE MagLe(x.mag, y.mag)

InRange(n, T) == IntLe(IntMin(T), n) /\ IntLe(n, IntMax(T))

Dbl(neg, mag, frac) == [c |-> "fin", neg |-> neg, mag |-> mag, frac |-> frac]
NaN == [c |-> "nan", neg |-> FALSE, mag |-> MagZero, frac |-> 0]
Inf(neg) == [c |-> "inf", neg |-> neg, mag |-> MagZero, frac |-> 0]

\* x <= y on doubles; a comparison with NaN is false
DblLe(x, y) ==
  IF x.c = "nan" \/ y.c = "nan" THEN FALSE
  ELSE IF x.c = "inf" THEN x.neg \/ (y.c = "inf" /\ ~y.neg)
  ELSE IF y.c = "inf" THEN ~y.neg
  ELSE IF x.mag = MagZero /\ x.frac = 0 /\ y.mag = MagZero /\ y.frac = 0 THEN TRUE
  ELSE IF x.neg /\ ~y.neg THEN TRUE
  ELSE IF ~x.neg /\ y.neg THEN FALSE
  ELSE IF x.neg
    THEN MagLt(y.mag, x.mag) \/ (y.mag = x.mag /\ y.frac <= x.frac)
    ELSE MagLt(x.mag, y.mag) \/ (x.mag = y.mag /\ x.frac <= y.frac)

\* `n as f64`: the nearest double, ties to even.  Magnitudes below 2^53 are
\* exact; above, the low bits beyond the 53-bit significand are rounded away.
MagAsF64(m) ==
  IF m[1] < 2^5 THEN m
  ELSE
    LET shift == BitLen(m[1]) - 5
        unit == 2^shift
        low == m[3] % unit
        kept == m[3] - low
        odd == (m[3] \div unit) % 2 = 1
        up == low * 2 > unit \/ (low * 2 = unit /\ odd)
        c == IF up THEN kept + unit ELSE kept
    IN  IF c < LimbBase THEN Mag(m[1], m[2], c)
        ELSE IF m[2] < LimbMax THEN Mag(m[1], m[2] + 1, 0)
        ELSE Mag(m[1] + 1, 0, 0)

IntAsF64(n) == Dbl(n.neg, MagAsF64(n.mag), 0)

\* a cast that rounds half away from zero instead of truncating
F64AsInt_Nearest(d, T) ==
  IF d.c = "nan" THEN MkInt(FALSE, MagZero)
  ELSE IF d.c = "inf" THEN (IF d.neg THEN IntMin(T) ELSE IntMax(T))
  ELSE LET m == IF d.frac >= 5 THEN MagInc(d.mag) ELSE d.mag IN
       IF d.neg THEN (IF MagLe(m, MinMag(T)) THEN MkInt(TRUE, m) ELSE IntMin(T))
       ELSE IF MagLe(m, MaxMag(T)) THEN MkInt(FALSE, m)
       ELSE IntMax(T)

\* `d as T` for a float d and an integer type T: truncates toward zero and
\* saturates at the ends of T; NaN gives 0.
F64AsInt(d, T) ==
  IF d.c = "nan" THEN MkInt(FALSE, MagZero)
  ELSE IF d.c = "inf" THEN (IF d.neg THEN IntMin(T) ELSE IntMax(T))
  ELSE IF d.neg THEN (IF MagLe(d.mag, MinMag(T)) THEN MkInt(TRUE, d.mag) ELSE IntMin(T))
  ELSE IF MagLe(d.mag, MaxMag(T)) THEN MkInt(FALSE, d.mag)
  ELSE IntMax(T)

(***************************************************************************)
(* The error type (error.rs).  An error is a record [kind, ...].           *)
(***************************************************************************)
Custom(msg) == [kind |-> "Custom", msg |-> msg]
missing_key == [kind |-> "MissingKey"]
expected_null == [kind |-> "ExpectedNull"]
expected_string == [kind |-> "ExpectedString"]
unsupported_type(typ) == [kind |-> "UnsupportedType", typ |-> typ]
FromFloatError(why, d) == [kind |-> "FloatError", why |-> why, d |-> d]
FromRangeErrorI64(why, n) == [kind |-> "I64Error", why |-> why, n |-> n]
FromPosOverflowU64(n) == [kind |-> "U64Error", why |-> "PosOverflow", n |-> n]
FromPosOverflowUsize(n) == [kind |-> "UsizeError", why |-> "PosOverflow", n |-> n]
FromStatus(st) == [kind |-> "Napi", st |-> st]

\* an error that answers TRUE for every failed N-API call
is_exception_pending_AnyStatus(err) == err.kind = "Napi"

\* Error::is_exception_pending: the kind is compared with Napi(PendingException)
is_exception_pending(err) == err = FromStatus("PendingException")

\* impl Display for the errors of the conv crate
ConvDisplay(why) ==
  CASE why = "NegOverflow" -> "conversion resulted in negative overflow"
    [] why = "PosOverflow" -> "conversion resulted in positive overflow"
    [] why = "NotANumber" -> "conversion target does not support not-a-number"

\* impl fmt::Display for Error: the text, as the pieces written to the formatter
to_string(err) ==
  CASE err.kind = "Custom" -> <<err.msg>>
    [] err.kind = "MissingKey" -> <<"MissingKey">>
    [] err.kind \in {"FloatError", "I64Error", "U64Error", "UsizeError"} ->
         <<ConvDisplay(err.why)>>
    [] err.kind = "ExpectedNull" -> <<"ExpectedNull">>
    [] err.kind = "ExpectedString" -> <<"ExpectedString">>
    [] err.kind = "UnsupportedType" -> <<"UnsupportedType(", err.typ, ")">>
    [] err.kind = "Napi" -> <<"Napi(", err.st, ")">>

NumericKinds == {"FloatError", "I64Error", "U64Error", "UsizeError"}

(***************************************************************************)
(* Results.  Every fallible operation returns [ok, v, e]: v is the value   *)
(* or the error, e the runtime after the operation.  A method taking       *)
(* &mut self returns the receiver's new state in a fourth field, s.        *)
(***************************************************************************)
Ok(v, e) == [ok |-> TRUE, v |-> v, e |-> e]
Err(err, e) == [ok |-> FALSE, v |-> err, e |-> e]
OkS(v, e, s) == [ok |-> TRUE, v |-> v, e |-> e, s |-> s]
ErrS(err, e, s) == [ok |-> FALSE, v |-> err, e |-> e, s |-> s]

(***************************************************************************)
(* The numeric conversions of the conv crate, as used by se.rs and de.rs.  *)
(* Each returns [ok, v]: the converted value or the error.                 *)
(***************************************************************************)
Pow2_53 == Mag(2^5, 0, 0)

\* a conversion of i64 that rounds instead of failing
F64ValueFromI64_Rounding(n) == [ok |-> TRUE, v |-> IntAsF64(n)]

\* f64::value_from(v) for v: i64 -- exact, or RangeError<i64> outside +-2^53
F64ValueFromI64(n) ==
  IF n.neg /\ ~MagLe(n.mag, Pow2_53)
    THEN [ok |-> FALSE, v |-> FromRangeErrorI64("NegOverflow", n)]
  ELSE IF ~n.neg /\ ~MagLe(n.mag, Pow2_53)
    THEN [ok |-> FALSE, v |-> FromRangeErrorI64("PosOverflow", n)]
  ELSE [ok |-> TRUE, v |-> IntAsF64(n)]

\* f64::value_from(v) for v: u64 -- exact, or PosOverflow<u64> above 2^53
F64ValueFromU64(n) ==
  IF ~MagLe(n.mag, Pow2_53)
    THEN [ok |-> FALSE, v |-> FromPosOverflowU64(n)]
  ELSE [ok |-> TRUE, v |-> IntAsF64(n)]

\* u32::value_from(v) for v: usize
U32ValueFromUsize(n) ==
  IF ~MagLe(n.mag, MaxMag("u32"))
    THEN [ok |-> FALSE, v |-> FromPosOverflowUsize(n)]
  ELSE [ok |-> TRUE, v |-> n]

\* <T as ApproxFrom<f64, DefaultApprox>>::approx_from(src) for an integer T:
\* NaN and values outside [min_of!(T) as f64, max_of!(T) as f64] are errors,
\* anything else is cast with `as`.
ApproxFromF64(T, src) ==
  IF src.c = "nan"
    THEN [ok |-> FALSE, v |-> FromFloatError("NotANumber", src)]
  ELSE IF ~DblLe(IntAsF64(IntMin(T)), src)
    THEN [ok |-> FALSE, v |-> FromFloatError("NegOverflow", src)]
  ELSE IF ~DblLe(src, IntAsF64(IntMax(T)))
    THEN [ok |-> FALSE, v |-> FromFloatError("PosOverflow", src)]
  ELSE [ok |-> TRUE, v |-> F64AsInt(src, T)]

(***************************************************************************)
(* The JavaScript runtime behind napi::Env.                                *)
(*                                                                         *)
(* A dynamic value is a record [t, ...]: a primitive carries its content,  *)
(* [t |-> "Ref", id] is a handle to heap[id], an Object (its properties in *)
(* insertion order), an Array (its elements, Hole where none was set) or   *)
(* an ArrayBuffer.  The runtime e is [heap, log, failAt, failSt, pending,  *)
(* vis]: log lists the N-API calls issued so far, each with the status it  *)
(* returned; the failAt-th call (if any) fails with status failSt; pending *)
(* says an exception is pending, when every call fails; vis lists the      *)
(* visitor methods the deserializer has called; thrown lists the messages  *)
(* of the exceptions raised through the context.                           *)
(***************************************************************************)
Undefined == [t |-> "Undefined"]
JsNull == [t |-> "Null"]
JsBool(b) == [t |-> "Boolean", b |-> b]
JsNum(d) == [t |-> "Number", d |-> d]
JsStr(s) == [t |-> "String", s |-> s]
JsOther(tag) == [t |-> tag]
Ref(id) == [t |-> "Ref", id |-> id]
Hole == [t |-> "Hole"]

Prop(k, v) == [key |-> k, val |-> v]
JsObject(props) == [cls |-> "Object", props |-> props]
JsArray(el) == [cls |-> "Array", el |-> el]
JsArrayBuffer(bytes) == [cls |-> "ArrayBuffer", bytes |-> bytes]

\* napi::ValueType of a value
ValueType(v) == IF v.t = "Ref" THEN "Object" ELSE v.t

IsRef(e, v, cls) == v.t = "Ref" /\ e.heap[v.id].cls = cls

NewEnv(heap, failAt, failSt) ==
  [heap |-> heap, log |-> <<>>, failAt |-> failAt, failSt |-> failSt,
   pending |-> FALSE, vis |-> <<>>, thrown |-> <<>>]

\* The decimal spelling of an array index, as a property key.
IndexKeys == <<"0", "1", "2", "3", "4", "5", "6", "7">>
IsIndexKey(k) == \E i \in 1..Len(IndexKeys) : IndexKeys[i] = k
KeyIndex(k) == (CHOOSE i \in 1..Len(IndexKeys) : IndexKeys[i] = k) - 1
IndexKey(i) == IndexKeys[i + 1]

\* The UTF-16 units of the strings the model uses.
CharsOf(s) ==
  CASE s = "" -> <<>>
    [] s = "ab" -> <<"a", "b">>
    [] s = "Red" -> <<"R", "e", "d">>
    [] s = "Blue" -> <<"B", "l", "u", "e">>
    [] s = "Circle" -> <<"C", "i", "r", "c", "l", "e">>
    [] s = "Pair" -> <<"P", "a", "i", "r">>
    [] s = "Wrap" -> <<"W", "r", "a", "p">>
    [] s = "radius" -> <<"r", "a", "d", "i", "u", "s">>
    [] s = "name" -> <<"n", "a", "m", "e">>
    [] s = "candy_count" -> <<"c", "a", "n", "d", "y", "_", "c", "o", "u", "n", "t">>
    [] s = "weaknesses" -> <<"w", "e", "a", "k", "n", "e", "s", "s", "e", "s">>
    [] OTHER -> <<s>>

\* ToPropertyKey: the string a value names a property by
PropertyKey(v) ==
  CASE v.t = "String" -> v.s
    [] v.t = "Number" /\ v.d.c = "fin" /\ ~v.d.neg /\ v.d.frac = 0
         /\ MagLt(v.d.mag, Mag(0, 0, Len(IndexKeys))) -> IndexKey(v.d.mag[3])
    [] v.t = "Boolean" -> IF v.b THEN "true" ELSE "false"
    [] v.t = "Null" -> "null"
    [] v.t = "Undefined" -> "undefined"
    [] OTHER -> "[object Object]"

HasProp(props, k) == \E i \in 1..Len(props) : props[i].key = k
PropIndex(props, k) == CHOOSE i \in 1..Len(props) : props[i].key = k
GetProp(props, k) == IF HasProp(props, k) THEN props[PropIndex(props, k)].val ELSE Undefined
SetProp(props, k, v) ==
  IF HasProp(props, k) THEN [props EXCEPT ![PropIndex(props, k)].val = v]
  ELSE Append(props, Prop(k, v))
DelProp(props, k) == SelectSeq(props, LAMBDA p : p.key # k)

\* The enumerable keys of a value, in the order of OrdinaryOwnPropertyKeys:
\* index keys ascending, then the other keys in insertion order.
OwnKeys(e, v) ==
  IF v.t = "String" THEN [i \in 1..Len(CharsOf(v.s)) |-> IndexKeys[i]]
  ELSE IF v.t # "Ref" THEN <<>>
  ELSE LET o == e.heap[v.id] IN
    CASE o.cls = "Array" ->
           SelectSeq([i \in 1..Len(o.el) |-> IndexKeys[i]],
                     LAMBDA k : o.el[KeyIndex(k) + 1] # Hole)
      [] o.cls = "Object" ->
           SelectSeq(IndexKeys, LAMBDA k : HasProp(o.props, k))
             \o SelectSeq([i \in 1..Len(o.props) |-> o.props[i].key],
                          LAMBDA k : ~IsIndexKey(k))
      [] OTHER -> <<>>

\* [[Get]] of property k on a value that ToObject accepts
GetValue(e, v, k) ==
  IF v.t = "String"
    THEN IF IsIndexKey(k) /\ KeyIndex(k) < Len(CharsOf(v.s))
           THEN JsStr(CharsOf(v.s)[KeyIndex(k) + 1]) ELSE Undefined
  ELSE IF v.t # "Ref" THEN Undefined
  ELSE LET o == e.heap[v.id] IN
    CASE o.cls = "Array" ->
           IF IsIndexKey(k) /\ KeyIndex(k) < Len(o.el) /\ o.el[KeyIndex(k) + 1] # Hole
             THEN o.el[KeyIndex(k) + 1] ELSE Undefined
      [] o.cls = "Object" -> GetProp(o.props, k)
      [] OTHER -> Undefined

\* [[Set]] of property k on heap object id
SetValue(heap, id, k, v) ==
  LET o == heap[id] IN
    CASE o.cls = "Array" /\ IsIndexKey(k) ->
           LET i == KeyIndex(k) + 1
               n == IF i > Len(o.el) THEN i ELSE Len(o.el)
           IN  [heap EXCEPT ![id].el =
                  [j \in 1..n |-> IF j = i THEN v
                                  ELSE IF j <= Len(o.el) THEN o.el[j] ELSE Hole]]
      [] o.cls = "Object" -> [heap EXCEPT ![id].props = SetProp(o.props, k, v)]
      [] OTHER -> heap

Nullish(v) == v.t \in {"Undefined", "Null"}

(***************************************************************************)
(* The N-API wrappers of js.rs.  Each issues its N-API calls, and returns  *)
(* Ok(value) or Err(status): Verify::verify turns every status but Ok into *)
(* an Err.                                                                 *)
(***************************************************************************)
verify(st) == st = "Ok"

\* One N-API call named `name`: st is the status N-API answers when nothing
\* is injected, v the value it hands back and heap the heap it leaves.
NapiCall(e, name, st, v, heap) ==
  LET status == IF e.pending THEN "PendingException"
                ELSE IF e.failAt = Len(e.log) + 1 THEN e.failSt
                ELSE st
      e1 == [e EXCEPT !.log = Append(@, [name |-> name, st |-> status])]
  IN  IF verify(status) THEN Ok(v, [e1 EXCEPT !.heap = heap])
      ELSE Err(status, [e1 EXCEPT !.pending = @ \/ status = "PendingException"])

get_value_bool(e, value) ==
  NapiCall(e, "get_value_bool",
           IF value.t = "Boolean" THEN "Ok" ELSE "BooleanExpected",
           IF value.t = "Boolean" THEN value.b ELSE FALSE, e.heap)

get_value_double(e, value) ==
  NapiCall(e, "get_value_double",
           IF value.t = "Number" THEN "Ok" ELSE "NumberExpected",
           IF value.t = "Number" THEN value.d ELSE NaN, e.heap)

get_string_len(e, value) ==
  NapiCall(e, "get_value_string_utf8",
           IF value.t = "String" THEN "Ok" ELSE "StringExpected",
           IF value.t = "String" THEN Len(CharsOf(value.s)) ELSE 0, e.heap)

get_value_string(e, value) ==
  LET Fill(n) ==
        IF ~n.ok THEN n
        ELSE NapiCall(n.e, "get_value_string_utf8",
                      IF value.t = "String" THEN "Ok" ELSE "StringExpected",
                      IF value.t = "String" THEN value.s ELSE "", n.e.heap)
  IN  Fill(get_string_len(e, value))

get_value_arraybuffer(e, value) ==
  NapiCall(e, "get_arraybuffer_info",
           IF IsRef(e, value, "ArrayBuffer") THEN "Ok" ELSE "InvalidArg",
           IF IsRef(e, value, "ArrayBuffer") THEN e.heap[value.id].bytes ELSE <<>>,
           e.heap)

get_array_len(e, value) ==
  NapiCall(e, "get_array_length",
           IF IsRef(e, value, "Array") THEN "Ok" ELSE "ArrayExpected",
           IF IsRef(e, value, "Array") THEN Len(e.heap[value.id].el) ELSE 0,
           e.heap)

get_array_element(e, arr, i) ==
  NapiCall(e, "get_element",
           IF Nullish(arr) THEN "ObjectExpected" ELSE "Ok",
           IF i < Len(IndexKeys) THEN GetValue(e, arr, IndexKey(i)) ELSE Undefined,
           e.heap)

typeof_value(e, value) ==
  NapiCall(e, "typeof", "Ok", ValueType(value), e.heap)

get_property_names(e, value) ==
  NapiCall(e, "get_property_names",
           IF Nullish(value) THEN "ObjectExpected" ELSE "Ok",
           Ref(Len(e.heap) + 1),
           Append(e.heap,
                  JsArray([i \in 1..Len(OwnKeys(e, value)) |-> JsStr(OwnKeys(e, value)[i])])))

get_property(e, object, key) ==
  NapiCall(e, "get_property",
           IF Nullish(object) THEN "ObjectExpected" ELSE "Ok",
           GetValue(e, object, PropertyKey(key)), e.heap)

get_null(e) == NapiCall(e, "get_null", "Ok", JsNull, e.heap)

create_double(e, v) == NapiCall(e, "create_double", "Ok", JsNum(v), e.heap)

create_bool(e, v) == NapiCall(e, "get_boolean", "Ok", JsBool(v), e.heap)

create_string(e, v) == NapiCall(e, "create_string_utf8", "Ok", JsStr(v), e.heap)

create_object(e) ==
  NapiCall(e, "create_object", "Ok", Ref(Len(e.heap) + 1),
           Append(e.heap, JsObject(<<>>)))

create_array_with_length(e, len) ==
  NapiCall(e, "create_array_with_length", "Ok", Ref(Len(e.heap) + 1),
           Append(e.heap, JsArray([i \in 1..len |-> Hole])))

create_arraybuffer(e, v) ==
  NapiCall(e, "create_arraybuffer", "Ok", Ref(Len(e.heap) + 1),
           Append(e.heap, JsArrayBuffer(v)))

object_set(e, o, k, v) ==
  NapiCall(e, "set_property",
           IF Nullish(o) THEN "ObjectExpected" ELSE "Ok",
           TRUE,
           IF o.t = "Ref" THEN SetValue(e.heap, o.id, PropertyKey(k), v) ELSE e.heap)

\* k is the u32 index, a Rust integer
array_set(e, arr, k, v) ==
  NapiCall(e, "set_element",
           IF Nullish(arr) THEN "ObjectExpected" ELSE "Ok",
           TRUE,
           IF arr.t = "Ref" /\ MagLt(k.mag, Mag(0, 0, Len(IndexKeys)))
             THEN SetValue(e.heap, arr.id, IndexKey(k.mag[3]), v) ELSE e.heap)

\* The `?` on a js.rs result inside se.rs and de.rs: From<napi::Status> for Error.
\* a conversion of the status that keeps the failure but not its code
Try_Opaque(r) == IF r.ok THEN r ELSE Err(FromStatus("GenericFailure"), r.e)

Try(r) == IF r.ok THEN r ELSE Err(FromStatus(r.v), r.e)

(***************************************************************************)
(* Static shapes and values of the typed side.                             *)
(*                                                                         *)
(* A type is [k, ...]; a value is [r, ...].  A struct's value lists its    *)
(* fields' values in declaration order; an enum's value names its variant  *)
(* and carries the payload (unit, the wrapped value, a tuple or a struct). *)
(***************************************************************************)
TBool == [k |-> "bool"]
TInt(w) == [k |-> "int", w |-> w]
TF64 == [k |-> "f64"]
TString == [k |-> "String"]
TByteBuf == [k |-> "ByteBuf"]
TUnit == [k |-> "unit"]
TUnitStruct == [k |-> "unit_struct"]
TOption(of) == [k |-> "Option", of |-> of]
TVec(of) == [k |-> "Vec", of |-> of]
TStruct(fields) == [k |-> "struct", fields |-> fields]
TEnum(variants) == [k |-> "enum", variants |-> variants]
TValue == [k |-> "Value"]
TTuple(elems) == [k |-> "tuple", elems |-> elems]
TMap(kty, vty) == [k |-> "map", kty |-> kty, vty |-> vty]
\* the seeds the derived visitors use: a field or variant identifier, and
\* serde's IgnoredAny for the value of an unknown field
TIdent(names, of) == [k |-> "identifier", names |-> names, of |-> of]
TIgnoredAny == [k |-> "IgnoredAny"]
Field(name, ty) == [name |-> name, ty |-> ty]
VUnit(name) == [name |-> name, vk |-> "unit"]
VNewtype(name, of) == [name |-> name, vk |-> "newtype", of |-> of]
VTuple(name, elems) == [name |-> name, vk |-> "tuple", elems |-> elems]
VStruct(name, fields) == [name |-> name, vk |-> "struct", fields |-> fields]

RBool(b) == [r |-> "bool", b |-> b]
RInt(n) == [r |-> "int", n |-> n]
RF64(d) == [r |-> "f64", d |-> d]
RString(s) == [r |-> "String", s |-> s]
RByteBuf(bytes) == [r |-> "ByteBuf", bytes |-> bytes]
RUnit == [r |-> "unit"]
RNone == [r |-> "None"]
RSome(x) == [r |-> "Some", x |-> x]
RVec(items) == [r |-> "Vec", items |-> items]
RTuple(items) == [r |-> "tuple", items |-> items]
RStruct(vals) == [r |-> "struct", vals |-> vals]
RVariant(name, payload) == [r |-> "variant", name |-> name, payload |-> payload]
RMap(entries) == [r |-> "map", entries |-> entries]
Entry(mk, mv) == [mk |-> mk, mv |-> mv]
RIdent(idx) == [r |-> "identifier", idx |-> idx]

VariantNames(ty) == [i \in 1..Len(ty.variants) |-> ty.variants[i].name]
FieldNames(fields) == [i \in 1..Len(fields) |-> fields[i].name]
IndexOf(names, n) == IF \E i \in 1..Len(names) : names[i] = n
                     THEN CHOOSE i \in 1..Len(names) : names[i] = n ELSE 0

(***************************************************************************)
(* The Serializer (se.rs).                                                 *)
(***************************************************************************)
ArraySerializer_new(value) == [value |-> value, offset |-> MagZero]
WrappedArraySerializer_new(serializer, value) == [serializer |-> serializer, value |-> value]
ObjectSerializer_new(value) == [value |-> value, key |-> <<>>]
WrappedObjectSerializer_new(serializer, value) == [serializer |-> serializer, value |-> value]

serialize_bool(e, v) == Try(create_bool(e, v))

\* i8, i16, i32, u8, u16, u32 go through Into<f64>, which is exact
serialize_i8(e, v) == Try(create_double(e, IntAsF64(v)))
serialize_i16(e, v) == Try(create_double(e, IntAsF64(v)))
serialize_i32(e, v) == Try(create_double(e, IntAsF64(v)))
serialize_u8(e, v) == Try(create_double(e, IntAsF64(v)))
serialize_u16(e, v) == Try(create_double(e, IntAsF64(v)))
serialize_u32(e, v) == Try(create_double(e, IntAsF64(v)))

serialize_i64(e, v) ==
  LET Create(d) == IF ~d.ok THEN Err(d.v, e) ELSE Try(create_double(e, d.v))
  IN  Create(F64ValueFromI64(v))

serialize_u64(e, v) ==
  LET Create(d) == IF ~d.ok THEN Err(d.v, e) ELSE Try(create_double(e, d.v))
  IN  Create(F64ValueFromU64(v))

\* an f32 widens to f64 exactly
serialize_f32(e, v) == Try(create_double(e, v))

serialize_f64(e, v) == Try(create_double(e, v))

serialize_str(e, v) == Try(create_string(e, v))

serialize_bytes(e, v) == Try(create_arraybuffer(e, v))

serialize_unit(e) == Try(get_null(e))
serialize_unit_struct(e) == serialize_unit(e)

serialize_none(e) == serialize_unit(e)

serialize_unit_variant(e, variant) == serialize_str(e, variant)

\* len is an Option<usize>: <<>> is None, <<n>> is Some(n)
serialize_seq(e, len) ==
  LET Open(value) ==
        IF ~value.ok THEN value ELSE Ok(ArraySerializer_new(value.v), value.e)
  IN  Open(Try(create_array_with_length(e, IF len = <<>> THEN 0 ELSE len[1])))

serialize_tuple(e, len) == serialize_seq(e, <<len>>)

serialize_tuple_variant(e, variant, len) ==
  LET WithWrapper(wrapper) ==
        IF ~wrapper.ok THEN wrapper ELSE
        LET WithArr(arr) ==
              IF ~arr.ok THEN arr ELSE
              LET WithKey(k) ==
                    IF ~k.ok THEN k ELSE
                    LET Open(set) ==
                          IF ~set.ok THEN set
                          ELSE Ok(WrappedArraySerializer_new(ArraySerializer_new(arr.v),
                                                             wrapper.v), set.e)
                    IN  Open(Try(object_set(k.e, wrapper.v, k.v, arr.v)))
              IN  WithKey(Try(create_string(arr.e, variant)))
        IN  WithArr(Try(create_array_with_length(wrapper.e, len)))
  IN  WithWrapper(Try(create_object(e)))

serialize_map(e) ==
  LET Open(value) ==
        IF ~value.ok THEN value ELSE Ok(ObjectSerializer_new(value.v), value.e)
  IN  Open(Try(create_object(e)))

serialize_struct(e, len) == serialize_map(e)

serialize_struct_variant(e, variant) ==
  LET WithWrapper(wrapper) ==
        IF ~wrapper.ok THEN wrapper ELSE
        LET WithValue(value) ==
              IF ~value.ok THEN value ELSE
              LET WithKey(k) ==
                    IF ~k.ok THEN k ELSE
                    LET Open(set) ==
                          IF ~set.ok THEN set
                          ELSE Ok(WrappedObjectSerializer_new(ObjectSerializer_new(value.v),
                                                              wrapper.v), set.e)
                    IN  Open(Try(object_set(k.e, wrapper.v, k.v, value.v)))
              IN  WithKey(Try(create_string(value.e, variant)))
        IN  WithValue(Try(create_object(wrapper.e)))
  IN  WithWrapper(Try(create_object(e)))

ArraySerializer_end(s, e) == Ok(s.value, e)
\* end() handing back the inner array instead of the wrapper
WrappedArraySerializer_end_Inner(s, e) == Ok(s.serializer.value, e)

WrappedArraySerializer_end(s, e) == Ok(s.value, e)
ObjectSerializer_end(s, e) == Ok(s.value, e)
WrappedObjectSerializer_end(s, e) == Ok(s.value, e)

(***************************************************************************)
(* The serializer methods that take a value to serialize, and the          *)
(* Serialize implementations of the static types that call them (serde's   *)
(* own for the scalars, Option, Vec, tuples and maps; the derived ones for *)
(* structs and enums).                                                     *)
(***************************************************************************)
RECURSIVE Serialize(_, _, _)
RECURSIVE SerializeElements(_, _, _, _, _)
RECURSIVE SerializeTupleFields(_, _, _, _, _)
RECURSIVE SerializeEntries(_, _, _, _, _)
RECURSIVE SerializeFields(_, _, _, _, _)
RECURSIVE SerializeVariantFields(_, _, _, _, _)

serialize_some(ty, value, e) == Serialize(ty, value, e)

serialize_newtype_variant(e, variant, ty, value) ==
  LET WithObject(o) ==
        IF ~o.ok THEN o ELSE
        LET WithKey(k) ==
              IF ~k.ok THEN k ELSE
              LET WithValue(v) ==
                    IF ~v.ok THEN v ELSE
                    LET Done(set) == IF ~set.ok THEN set ELSE Ok(o.v, set.e)
                    IN  Done(Try(object_set(v.e, o.v, k.v, v.v)))
              IN  WithValue(Serialize(ty, value, k.e))
        IN  WithKey(Try(create_string(o.e, variant)))
  IN  WithObject(Try(create_object(e)))

\* serialize_element that writes without advancing the offset
SerializeSeq_serialize_element_NoAdvance(s, ty, value, e) ==
  LET WithValue(v) ==
        IF ~v.ok THEN ErrS(v.v, v.e, s) ELSE
        LET WithIndex(k) ==
              IF ~k.ok THEN ErrS(k.v, v.e, s) ELSE
              LET Done(set) ==
                    IF ~set.ok THEN ErrS(set.v, set.e, s) ELSE OkS(TRUE, set.e, s)
              IN  Done(Try(array_set(v.e, s.value, k.v, v.v)))
        IN  WithIndex(U32ValueFromUsize(MkInt(FALSE, s.offset)))
  IN  WithValue(Serialize(ty, value, e))

SerializeSeq_serialize_element(s, ty, value, e) ==
  LET WithValue(v) ==
        IF ~v.ok THEN ErrS(v.v, v.e, s) ELSE
        LET WithIndex(k) ==
              IF ~k.ok THEN ErrS(k.v, v.e, s) ELSE
              LET Done(set) ==
                    IF ~set.ok THEN ErrS(set.v, set.e, s)
                    ELSE OkS(TRUE, set.e, [s EXCEPT !.offset = MagInc(@)])
              IN  Done(Try(array_set(v.e, s.value, k.v, v.v)))
        IN  WithIndex(U32ValueFromUsize(MkInt(FALSE, s.offset)))
  IN  WithValue(Serialize(ty, value, e))

SerializeTupleVariant_serialize_field(s, ty, value, e) ==
  LET Wrap(r) == [r EXCEPT !.s = [s EXCEPT !.serializer = r.s]]
  IN  Wrap(SerializeSeq_serialize_element(s.serializer, ty, value, e))

\* serialize_key that drops the pending key before it serializes the new one
SerializeMap_serialize_key_Clearing(s, ty, key, e) ==
  LET Keep(k) ==
        IF ~k.ok THEN ErrS(k.v, k.e, [s EXCEPT !.key = <<>>])
        ELSE OkS(TRUE, k.e, [s EXCEPT !.key = <<k.v>>])
  IN  Keep(Serialize(ty, key, e))

SerializeMap_serialize_key(s, ty, key, e) ==
  LET Keep(k) ==
        IF ~k.ok THEN ErrS(k.v, k.e, s)
        ELSE OkS(TRUE, k.e, [s EXCEPT !.key = <<k.v>>])
  IN  Keep(Serialize(ty, key, e))

\* serialize_value that writes under `undefined` when no key is pending
SerializeMap_serialize_value_Unguarded(s, ty, value, e) ==
  LET WithValue(v) ==
        IF ~v.ok THEN ErrS(v.v, v.e, s) ELSE
        LET Done(set) == IF ~set.ok THEN ErrS(set.v, set.e, s) ELSE OkS(TRUE, set.e, s)
        IN  Done(Try(object_set(v.e, s.value,
                                IF s.key = <<>> THEN Undefined ELSE s.key[1], v.v)))
  IN  WithValue(Serialize(ty, value, e))

SerializeMap_serialize_value(s, ty, value, e) ==
  IF s.key = <<>> THEN ErrS(missing_key, e, s) ELSE
  LET WithValue(v) ==
        IF ~v.ok THEN ErrS(v.v, v.e, s) ELSE
        LET Done(set) == IF ~set.ok THEN ErrS(set.v, set.e, s) ELSE OkS(TRUE, set.e, s)
        IN  Done(Try(object_set(v.e, s.value, s.key[1], v.v)))
  IN  WithValue(Serialize(ty, value, e))

\* serialize_entry that leaves its key pending, as serialize_key does
SerializeMap_serialize_entry_Phased(s, kty, key, vty, value, e) ==
  LET WithKey(k) ==
        IF ~k.ok THEN ErrS(k.v, k.e, s) ELSE
        LET WithValue(v) ==
              IF ~v.ok THEN ErrS(v.v, v.e, s) ELSE
              LET Done(set) ==
                    IF ~set.ok THEN ErrS(set.v, set.e, s)
                    ELSE OkS(TRUE, set.e, [s EXCEPT !.key = <<k.v>>])
              IN  Done(Try(object_set(v.e, s.value, k.v, v.v)))
        IN  WithValue(Serialize(vty, value, k.e))
  IN  WithKey(Serialize(kty, key, e))

SerializeMap_serialize_entry(s, kty, key, vty, value, e) ==
  LET WithKey(k) ==
        IF ~k.ok THEN ErrS(k.v, k.e, s) ELSE
        LET WithValue(v) ==
              IF ~v.ok THEN ErrS(v.v, v.e, s) ELSE
              LET Done(set) ==
                    IF ~set.ok THEN ErrS(set.v, set.e, s) ELSE OkS(TRUE, set.e, s)
              IN  Done(Try(object_set(v.e, s.value, k.v, v.v)))
        IN  WithValue(Serialize(vty, value, k.e))
  IN  WithKey(Serialize(kty, key, e))

\* the key is a &'static str, serialized through serialize_str
SerializeStruct_serialize_field(s, key, ty, value, e) ==
  SerializeMap_serialize_entry(s, TString, RString(key), ty, value, e)

SerializeStructVariant_serialize_field(s, key, ty, value, e) ==
  LET Wrap(r) == [r EXCEPT !.s = [s EXCEPT !.serializer = r.s]]
  IN  Wrap(SerializeMap_serialize_entry(s.serializer, TString, RString(key), ty, value, e))

SerializeElements(tys, items, i, s, e) ==
  IF i > Len(items) THEN OkS(TRUE, e, s)
  ELSE LET Rest(r) == IF ~r.ok THEN r ELSE SerializeElements(tys, items, i + 1, r.s, r.e)
       IN  Rest(SerializeSeq_serialize_element(s, tys[i], items[i], e))

SerializeTupleFields(tys, items, i, s, e) ==
  IF i > Len(items) THEN OkS(TRUE, e, s)
  ELSE LET Rest(r) == IF ~r.ok THEN r ELSE SerializeTupleFields(tys, items, i + 1, r.s, r.e)
       IN  Rest(SerializeTupleVariant_serialize_field(s, tys[i], items[i], e))

SerializeEntries(ty, entries, i, s, e) ==
  IF i > Len(entries) THEN OkS(TRUE, e, s)
  ELSE LET Rest(r) == IF ~r.ok THEN r ELSE SerializeEntries(ty, entries, i + 1, r.s, r.e)
       IN  Rest(SerializeMap_serialize_entry(s, ty.kty, entries[i].mk,
                                             ty.vty, entries[i].mv, e))

SerializeFields(fields, vals, i, s, e) ==
  IF i > Len(fields) THEN OkS(TRUE, e, s)
  ELSE LET Rest(r) == IF ~r.ok THEN r ELSE SerializeFields(fields, vals, i + 1, r.s, r.e)
       IN  Rest(SerializeStruct_serialize_field(s, fields[i].name, fields[i].ty,
                                                vals[i], e))

SerializeVariantFields(fields, vals, i, s, e) ==
  IF i > Len(fields) THEN OkS(TRUE, e, s)
  ELSE LET Rest(r) ==
             IF ~r.ok THEN r ELSE SerializeVariantFields(fields, vals, i + 1, r.s, r.e)
       IN  Rest(SerializeStructVariant_serialize_field(s, fields[i].name,
                                                       fields[i].ty, vals[i], e))

SerializeInt(w, n, e) ==
  CASE w = "i8" -> serialize_i8(e, n)
    [] w = "i16" -> serialize_i16(e, n)
    [] w = "i32" -> serialize_i32(e, n)
    [] w = "i64" -> serialize_i64(e, n)
    [] w = "u8" -> serialize_u8(e, n)
    [] w = "u16" -> serialize_u16(e, n)
    [] w = "u32" -> serialize_u32(e, n)
    [] w = "u64" -> serialize_u64(e, n)

SerializeEnum(ty, value, e) ==
  LET variant == ty.variants[IndexOf(VariantNames(ty), value.name)] IN
  CASE variant.vk = "unit" -> serialize_unit_variant(e, variant.name)
    [] variant.vk = "newtype" ->
         serialize_newtype_variant(e, variant.name, variant.of, value.payload)
    [] variant.vk = "tuple" ->
         LET Fill(s) ==
               IF ~s.ok THEN s ELSE
               LET End(r) ==
                     IF ~r.ok THEN Err(r.v, r.e) ELSE WrappedArraySerializer_end(r.s, r.e)
               IN  End(SerializeTupleFields(variant.elems, value.payload.items, 1, s.v, s.e))
         IN  Fill(serialize_tuple_variant(e, variant.name, Len(variant.elems)))
    [] variant.vk = "struct" ->
         LET FillFields(s) ==
               IF ~s.ok THEN s ELSE
               LET EndFields(r) ==
                     IF ~r.ok THEN Err(r.v, r.e) ELSE WrappedObjectSerializer_end(r.s, r.e)
               IN  EndFields(SerializeVariantFields(variant.fields, value.payload.vals,
                                                    1, s.v, s.e))
         IN  FillFields(serialize_struct_variant(e, variant.name))

Serialize(ty, value, e) ==
  CASE ty.k = "bool" -> serialize_bool(e, value.b)
    [] ty.k = "int" -> SerializeInt(ty.w, value.n, e)
    [] ty.k = "f64" -> serialize_f64(e, value.d)
    [] ty.k = "String" -> serialize_str(e, value.s)
    [] ty.k = "ByteBuf" -> serialize_bytes(e, value.bytes)
    [] ty.k = "unit" -> serialize_unit(e)
    [] ty.k = "unit_struct" -> serialize_unit_struct(e)
    [] ty.k = "Option" ->
         IF value.r = "None" THEN serialize_none(e)
         ELSE serialize_some(ty.of, value.x, e)
    [] ty.k = "Vec" ->
         LET FillVec(s) ==
               IF ~s.ok THEN s ELSE
               LET EndVec(r) == IF ~r.ok THEN Err(r.v, r.e) ELSE ArraySerializer_end(r.s, r.e)
               IN  EndVec(SerializeElements([i \in 1..Len(value.items) |-> ty.of],
                                            value.items, 1, s.v, s.e))
         IN  FillVec(serialize_seq(e, <<Len(value.items)>>))
    [] ty.k = "tuple" ->
         LET FillTuple(s) ==
               IF ~s.ok THEN s ELSE
               LET EndTuple(r) ==
                     IF ~r.ok THEN Err(r.v, r.e) ELSE ArraySerializer_end(r.s, r.e)
               IN  EndTuple(SerializeElements(ty.elems, value.items, 1, s.v, s.e))
         IN  FillTuple(serialize_tuple(e, Len(ty.elems)))
    [] ty.k = "map" ->
         LET FillMap(s) ==
               IF ~s.ok THEN s ELSE
               LET EndMap(r) == IF ~r.ok THEN Err(r.v, r.e) ELSE ObjectSerializer_end(r.s, r.e)
               IN  EndMap(SerializeEntries(ty, value.entries, 1, s.v, s.e))
         IN  FillMap(serialize_map(e))
    [] ty.k = "struct" ->
         LET FillStruct(s) ==
               IF ~s.ok THEN s ELSE
               LET EndStruct(r) ==
                     IF ~r.ok THEN Err(r.v, r.e) ELSE ObjectSerializer_end(r.s, r.e)
               IN  EndStruct(SerializeFields(ty.fields, value.vals, 1, s.v, s.e))
         IN  FillStruct(serialize_struct(e, Len(ty.fields)))
    [] ty.k = "enum" -> SerializeEnum(ty, value, e)

\* mod.rs: to_value
to_value(e, ty, value) == Serialize(ty, value, e)

(***************************************************************************)
(* The Deserializer (de.rs).  A Deserializer is the dynamic value it       *)
(* holds; a visitor is the static type that made it.  visit(e, m, on)      *)
(* records that visitor method m was called by the deserializer over `on`. *)
(***************************************************************************)
visit(e, m, on) == [e EXCEPT !.vis = Append(@, [m |-> m, on |-> on])]

ArrayAccessor_new(e, array) ==
  LET Make(len) ==
        IF ~len.ok THEN len
        ELSE Ok([array |-> array, len |-> len.v, index |-> 0], len.e)
  IN  Make(Try(get_array_len(e, array)))

\* ArrayAccessor::next: Ok(<<>>) is None, Ok(<<element>>) is Some(element)
\* next that checks the index against the live length of the array
ArrayAccessor_next_Live(s, e) ==
  IF s.index >= Len(e.heap[s.array.id].el) THEN OkS(<<>>, e, s) ELSE
  LET Advance(element) ==
        IF ~element.ok THEN ErrS(element.v, element.e, s)
        ELSE OkS(<<element.v>>, element.e, [s EXCEPT !.index = @ + 1])
  IN  Advance(Try(get_array_element(e, s.array, s.index)))

ArrayAccessor_next(s, e) ==
  IF s.index >= s.len THEN OkS(<<>>, e, s) ELSE
  LET Advance(element) ==
        IF ~element.ok THEN ErrS(element.v, element.e, s)
        ELSE OkS(<<element.v>>, element.e, [s EXCEPT !.index = @ + 1])
  IN  Advance(Try(get_array_element(e, s.array, s.index)))

ObjectAccessor_new(e, object) ==
  LET WithNames(names) ==
        IF ~names.ok THEN names ELSE
        LET Make(keys) ==
              IF ~keys.ok THEN keys
              ELSE Ok([object |-> object, keys |-> keys.v, next |-> <<>>], keys.e)
        IN  Make(ArrayAccessor_new(names.e, names.v))
  IN  WithNames(Try(get_property_names(e, object)))

\* a size hint that forgets the elements already read
ArrayAccessor_size_hint_Len(s) == s.len

ArrayAccessor_size_hint(s) == s.len - s.index
ObjectAccessor_size_hint(s) == ArrayAccessor_size_hint(s.keys)

deserialize_bool(value, e) ==
  LET Visit(b) == IF ~b.ok THEN b ELSE Ok(RBool(b.v), visit(b.e, "visit_bool", value))
  IN  Visit(Try(get_value_bool(e, value)))

\* deserialize_i8 .. deserialize_u64: read the double, approximate, visit
DeserializeApprox(T, value, e) ==
  LET WithDouble(n) ==
        IF ~n.ok THEN n ELSE
        LET Visit(a) ==
              IF ~a.ok THEN Err(a.v, n.e)
              ELSE Ok(RInt(a.v), visit(n.e, "visit_int", value))
        IN  Visit(ApproxFromF64(T, n.v))
  IN  WithDouble(Try(get_value_double(e, value)))

deserialize_i8(value, e) == DeserializeApprox("i8", value, e)
deserialize_i16(value, e) == DeserializeApprox("i16", value, e)
deserialize_i32(value, e) == DeserializeApprox("i32", value, e)
deserialize_i64(value, e) == DeserializeApprox("i64", value, e)
deserialize_u8(value, e) == DeserializeApprox("u8", value, e)
deserialize_u16(value, e) == DeserializeApprox("u16", value, e)
deserialize_u32(value, e) == DeserializeApprox("u32", value, e)
deserialize_u64(value, e) == DeserializeApprox("u64", value, e)

DeserializeInt(w, value, e) ==
  CASE w = "i8" -> deserialize_i8(value, e)
    [] w = "i16" -> deserialize_i16(value, e)
    [] w = "i32" -> deserialize_i32(value, e)
    [] w = "i64" -> deserialize_i64(value, e)
    [] w = "u8" -> deserialize_u8(value, e)
    [] w = "u16" -> deserialize_u16(value, e)
    [] w = "u32" -> deserialize_u32(value, e)
    [] w = "u64" -> deserialize_u64(value, e)

deserialize_f64(value, e) ==
  LET Visit(n) == IF ~n.ok THEN n ELSE Ok(RF64(n.v), visit(n.e, "visit_f64", value))
  IN  Visit(Try(get_value_double(e, value)))

deserialize_string(value, e) ==
  LET Visit(str) ==
        IF ~str.ok THEN str ELSE Ok(RString(str.v), visit(str.e, "visit_string", value))
  IN  Visit(Try(get_value_string(e, value)))

deserialize_byte_buf(value, e) ==
  LET Visit(buf) ==
        IF ~buf.ok THEN buf ELSE Ok(RByteBuf(buf.v), visit(buf.e, "visit_byte_buf", value))
  IN  Visit(Try(get_value_arraybuffer(e, value)))

\* deserialize_unit that takes only Null
deserialize_unit_NullOnly(value, e) ==
  LET Visit(typ) ==
        IF ~typ.ok THEN typ
        ELSE IF typ.v = "Null" THEN Ok(RUnit, visit(typ.e, "visit_unit", value))
        ELSE Err(expected_null, typ.e)
  IN  Visit(Try(typeof_value(e, value)))

deserialize_unit(value, e) ==
  LET Visit(typ) ==
        IF ~typ.ok THEN typ
        ELSE IF typ.v \in {"Null", "Undefined"}
          THEN Ok(RUnit, visit(typ.e, "visit_unit", value))
        ELSE Err(expected_null, typ.e)
  IN  Visit(Try(typeof_value(e, value)))

deserialize_unit_struct(value, e) == deserialize_unit(value, e)

deserialize_ignored_any(value, e) == Ok(RUnit, visit(e, "visit_unit", value))

\* The identifier visitor of a derived struct or enum: a known name gives its
\* index; an unknown one is ignored for a field, an error for a variant.
deserialize_identifier(value, ty, e) ==
  LET Visit(str) ==
        IF ~str.ok THEN str
        ELSE IF IndexOf(ty.names, str.v.s) # 0
          THEN Ok(RIdent(IndexOf(ty.names, str.v.s)), str.e)
        ELSE IF ty.of = "field" THEN Ok(RIdent(0), str.e)
        ELSE Err(Custom("unknown variant"), str.e)
  IN  Visit(deserialize_string(value, e))

(***************************************************************************)
(* The deserializer methods that hand the visitor a deserializer or an     *)
(* accessor, and the Deserialize implementations (and visitors) of the     *)
(* static types: serde's own for the scalars, Option, Vec, tuples, maps    *)
(* and a self-describing Value; the derived ones for structs and enums.    *)
(***************************************************************************)
RECURSIVE Deserialize(_, _, _)
RECURSIVE VecVisitSeq(_, _, _, _)
RECURSIVE TupleVisitSeq(_, _, _, _)
RECURSIVE MapVisitMap(_, _, _, _)
RECURSIVE StructVisitMap(_, _, _, _)

SeqAccess_next_element_seed(s, seed, e) ==
  LET WithNext(n) ==
        IF ~n.ok \/ n.v = <<>> THEN n ELSE
        LET Some(v) == IF ~v.ok THEN ErrS(v.v, v.e, n.s) ELSE OkS(<<v.v>>, v.e, n.s)
        IN  Some(Deserialize(seed, n.v[1], n.e))
  IN  WithNext(ArrayAccessor_next(s, e))

\* next_key_seed that enumerates the live object on every call
MapAccess_next_key_seed_Live(s, seed, e) ==
  LET WithKeys(live) ==
        IF s.keys.index >= Len(live)
          THEN OkS(<<>>, e, [s EXCEPT !.next = <<>>])
        ELSE LET WithKey(key, s1) ==
                   LET Some(k) ==
                         IF ~k.ok THEN ErrS(k.v, k.e, s1) ELSE OkS(<<k.v>>, k.e, s1)
                   IN  Some(Deserialize(seed, key, e))
             IN  WithKey(JsStr(live[s.keys.index + 1]),
                         [s EXCEPT !.keys.index = @ + 1,
                                   !.next = <<JsStr(live[s.keys.index + 1])>>])
  IN  WithKeys(OwnKeys(e, s.object))

MapAccess_next_key_seed(s, seed, e) ==
  LET WithNext(n) ==
        IF ~n.ok THEN ErrS(n.v, n.e, s) ELSE
        LET WithKey(s1) ==
              IF n.v = <<>> THEN OkS(<<>>, n.e, s1) ELSE
              LET Some(k) == IF ~k.ok THEN ErrS(k.v, k.e, s1) ELSE OkS(<<k.v>>, k.e, s1)
              IN  Some(Deserialize(seed, n.v[1], n.e))
        IN  WithKey([s EXCEPT !.keys = n.s, !.next = n.v])
  IN  WithNext(ArrayAccessor_next(s.keys, e))

MapAccess_next_value_seed(s, seed, e) ==
  IF s.next = <<>> THEN ErrS(missing_key, e, s) ELSE
  LET WithValue(value) ==
        IF ~value.ok THEN ErrS(value.v, value.e, s) ELSE
        LET Done(v) == IF ~v.ok THEN ErrS(v.v, v.e, s) ELSE OkS(v.v, v.e, s)
        IN  Done(Deserialize(seed, value.v, value.e))
  IN  WithValue(Try(get_property(e, s.object, s.next[1])))

\* Vec<T>'s visitor: elements until the accessor is exhausted
VecVisitSeq(of, s, items, e) ==
  LET Push(n) ==
        IF ~n.ok THEN Err(n.v, n.e)
        ELSE IF n.v = <<>> THEN Ok(RVec(items), n.e)
        ELSE VecVisitSeq(of, n.s, Append(items, n.v[1]), n.e)
  IN  Push(SeqAccess_next_element_seed(s, of, e))

\* A tuple's visitor: one element per component, a missing one is an error
TupleVisitSeq(elems, s, items, e) ==
  IF Len(items) = Len(elems) THEN Ok(RTuple(items), e) ELSE
  LET Push(n) ==
        IF ~n.ok THEN Err(n.v, n.e)
        ELSE IF n.v = <<>> THEN Err(Custom("invalid length"), n.e)
        ELSE TupleVisitSeq(elems, n.s, Append(items, n.v[1]), n.e)
  IN  Push(SeqAccess_next_element_seed(s, elems[Len(items) + 1], e))

\* A map's visitor, and Value's: entries until the accessor is exhausted
MapVisitMap(ty, s, entries, e) ==
  LET WithKey(k) ==
        IF ~k.ok THEN Err(k.v, k.e)
        ELSE IF k.v = <<>> THEN Ok(RMap(entries), k.e) ELSE
        LET Insert(v) ==
              IF ~v.ok THEN Err(v.v, v.e)
              ELSE MapVisitMap(ty, v.s, Append(entries, Entry(k.v[1], v.v)), v.e)
        IN  Insert(MapAccess_next_value_seed(k.s, ty.vty, k.e))
  IN  WithKey(MapAccess_next_key_seed(s, ty.kty, e))

\* The end of a derived struct's visit_map: a field never seen is None for an
\* Option and an error otherwise.
StructFinish(fields, vals, e) ==
  IF \E i \in 1..Len(fields) : vals[i] = <<>> /\ fields[i].ty.k # "Option"
    THEN Err(Custom("missing field"), e)
  ELSE Ok(RStruct([i \in 1..Len(fields) |->
                     IF vals[i] = <<>> THEN RNone ELSE vals[i][1]]), e)

\* A derived struct's visit_map: vals[i] is <<>> until field i has been read
StructVisitMap(fields, s, vals, e) ==
  LET WithKey(k) ==
        IF ~k.ok THEN Err(k.v, k.e)
        ELSE IF k.v = <<>> THEN StructFinish(fields, vals, k.e)
        ELSE IF k.v[1].idx # 0 /\ vals[k.v[1].idx] # <<>>
          THEN Err(Custom("duplicate field"), k.e)
        ELSE
          LET Store(v) ==
                IF ~v.ok THEN Err(v.v, v.e)
                ELSE StructVisitMap(fields, v.s,
                                    IF k.v[1].idx = 0 THEN vals
                                    ELSE [vals EXCEPT ![k.v[1].idx] = <<v.v>>], v.e)
          IN  Store(MapAccess_next_value_seed(
                      k.s,
                      IF k.v[1].idx = 0 THEN TIgnoredAny ELSE fields[k.v[1].idx].ty,
                      k.e))
  IN  WithKey(MapAccess_next_key_seed(s, TIdent(FieldNames(fields), "field"), e))

\* deserialize_option that takes only Null for an absent value
deserialize_option_NullOnly(value, ty, e) ==
  LET Visit(typ) ==
        IF ~typ.ok THEN typ
        ELSE IF typ.v = "Null"
          THEN Ok(RNone, visit(typ.e, "visit_none", value))
        ELSE LET Some(x) == IF ~x.ok THEN x ELSE Ok(RSome(x.v), x.e)
             IN  Some(Deserialize(ty.of, value, visit(typ.e, "visit_some", value)))
  IN  Visit(Try(typeof_value(e, value)))

deserialize_option(value, ty, e) ==
  LET Visit(typ) ==
        IF ~typ.ok THEN typ
        ELSE IF typ.v \in {"Null", "Undefined"}
          THEN Ok(RNone, visit(typ.e, "visit_none", value))
        ELSE LET Some(x) == IF ~x.ok THEN x ELSE Ok(RSome(x.v), x.e)
             IN  Some(Deserialize(ty.of, value, visit(typ.e, "visit_some", value)))
  IN  Visit(Try(typeof_value(e, value)))

deserialize_seq(value, visitor, e) ==
  LET Visit(s) ==
        IF ~s.ok THEN s
        ELSE IF visitor.k = "Vec"
          THEN VecVisitSeq(visitor.of, s.v, <<>>, visit(s.e, "visit_seq", value))
        ELSE TupleVisitSeq(visitor.elems, s.v, <<>>, visit(s.e, "visit_seq", value))
  IN  Visit(ArrayAccessor_new(e, value))

deserialize_tuple(value, visitor, e) == deserialize_seq(value, visitor, e)

deserialize_map(value, visitor, e) ==
  LET Visit(s) ==
        IF ~s.ok THEN s
        ELSE IF visitor.k = "struct"
          THEN StructVisitMap(visitor.fields, s.v,
                              [i \in 1..Len(visitor.fields) |-> <<>>],
                              visit(s.e, "visit_map", value))
        ELSE MapVisitMap(IF visitor.k = "map" THEN visitor ELSE TMap(TString, TValue),
                         s.v, <<>>, visit(s.e, "visit_map", value))
  IN  Visit(ObjectAccessor_new(e, value))

deserialize_struct(value, visitor, e) == deserialize_map(value, visitor, e)

\* deserialize_any that looks at the class of an Object: an Array is decoded
\* as a sequence and an ArrayBuffer as bytes
deserialize_any_ByClass(value, visitor, e) ==
  LET Dispatch(typ) ==
        IF ~typ.ok THEN typ ELSE
        CASE typ.v \in {"Undefined", "Null"} -> deserialize_unit(value, typ.e)
          [] typ.v = "Boolean" -> deserialize_bool(value, typ.e)
          [] typ.v = "Number" -> deserialize_f64(value, typ.e)
          [] typ.v = "String" -> deserialize_string(value, typ.e)
          [] typ.v = "Object" /\ IsRef(typ.e, value, "Array") ->
               deserialize_seq(value, TVec(TValue), typ.e)
          [] typ.v = "Object" /\ IsRef(typ.e, value, "ArrayBuffer") ->
               deserialize_byte_buf(value, typ.e)
          [] typ.v = "Object" -> deserialize_map(value, visitor, typ.e)
          [] OTHER -> Err(unsupported_type(typ.v), typ.e)
  IN  Dispatch(Try(typeof_value(e, value)))

\* deserialize_any that reads a Number as an integer
deserialize_any_Integral(value, visitor, e) ==
  LET Dispatch(typ) ==
        IF ~typ.ok THEN typ ELSE
        CASE typ.v \in {"Undefined", "Null"} -> deserialize_unit(value, typ.e)
          [] typ.v = "Boolean" -> deserialize_bool(value, typ.e)
          [] typ.v = "Number" -> deserialize_i64(value, typ.e)
          [] typ.v = "String" -> deserialize_string(value, typ.e)
          [] typ.v = "Object" -> deserialize_map(value, visitor, typ.e)
          [] OTHER -> Err(unsupported_type(typ.v), typ.e)
  IN  Dispatch(Try(typeof_value(e, value)))

\* deserialize_any that treats every other tag as a unit
deserialize_any_Lenient(value, visitor, e) ==
  LET Dispatch(typ) ==
        IF ~typ.ok THEN typ ELSE
        CASE typ.v = "Boolean" -> deserialize_bool(value, typ.e)
          [] typ.v = "Number" -> deserialize_f64(value, typ.e)
          [] typ.v = "String" -> deserialize_string(value, typ.e)
          [] typ.v = "Object" -> deserialize_map(value, visitor, typ.e)
          [] OTHER -> Ok(RUnit, visit(typ.e, "visit_unit", value))
  IN  Dispatch(Try(typeof_value(e, value)))

deserialize_any(value, visitor, e) ==
  LET Dispatch(typ) ==
        IF ~typ.ok THEN typ ELSE
        CASE typ.v \in {"Undefined", "Null"} -> deserialize_unit(value, typ.e)
          [] typ.v = "Boolean" -> deserialize_bool(value, typ.e)
          [] typ.v = "Number" -> deserialize_f64(value, typ.e)
          [] typ.v = "String" -> deserialize_string(value, typ.e)
          [] typ.v = "Object" -> deserialize_map(value, visitor, typ.e)
          [] OTHER -> Err(unsupported_type(typ.v), typ.e)
  IN  Dispatch(Try(typeof_value(e, value)))

\* impl EnumAccess for Deserializer: Ok([key, deserializer])
variant_seed(value, seed, e) ==
  LET WithKeys(keys) ==
        IF ~keys.ok THEN keys ELSE
        LET WithKey(key) ==
              IF ~key.ok THEN key ELSE
              LET WithValue(val) ==
                    IF ~val.ok THEN val ELSE
                    LET Pair(deserializer, k) ==
                          IF ~k.ok THEN k
                          ELSE Ok([key |-> k.v, deserializer |-> deserializer], k.e)
                    IN  Pair(val.v, Deserialize(seed, value, val.e))
              IN  WithValue(Try(get_property(key.e, value, key.v)))
        IN  WithKey(Try(get_array_element(keys.e, keys.v, 0)))
  IN  WithKeys(Try(get_property_names(e, value)))

\* impl VariantAccess for Deserializer
unit_variant(value, e) == Err(expected_string, e)

newtype_variant_seed(value, seed, e) == Deserialize(seed, value, e)
tuple_variant(value, visitor, e) == deserialize_seq(value, visitor, e)
struct_variant(value, visitor, e) == deserialize_map(value, visitor, e)

\* serde's StringDeserializer as EnumAccess: the string names the variant,
\* and only a unit variant can follow.
StringVisitEnum(str, ty, e) ==
  IF IndexOf(VariantNames(ty), str) = 0 THEN Err(Custom("unknown variant"), e)
  ELSE IF ty.variants[IndexOf(VariantNames(ty), str)].vk = "unit"
    THEN Ok(RVariant(str, RUnit), e)
  ELSE Err(Custom("invalid type"), e)

\* A derived enum's visit_enum over the Deserializer
VisitEnum(value, ty, e) ==
  LET WithVariant(k) ==
        IF ~k.ok THEN k ELSE
        LET Build(variant, p) ==
              IF ~p.ok THEN p ELSE Ok(RVariant(variant.name, p.v), p.e)
            Content(variant) ==
              CASE variant.vk = "unit" ->
                     LET Unit(u) == IF ~u.ok THEN u ELSE Ok(RUnit, u.e)
                     IN  Unit(unit_variant(k.v.deserializer, k.e))
                [] variant.vk = "newtype" ->
                     newtype_variant_seed(k.v.deserializer, variant.of, k.e)
                [] variant.vk = "tuple" ->
                     tuple_variant(k.v.deserializer, TTuple(variant.elems), k.e)
                [] variant.vk = "struct" ->
                     struct_variant(k.v.deserializer, TStruct(variant.fields), k.e)
        IN  Build(ty.variants[k.v.key.idx], Content(ty.variants[k.v.key.idx]))
  IN  WithVariant(variant_seed(value, TIdent(VariantNames(ty), "variant"), e))

deserialize_enum(value, visitor, e) ==
  LET Visit(typ) ==
        IF ~typ.ok THEN typ
        ELSE IF typ.v = "String" THEN
          LET VisitString(str) ==
                IF ~str.ok THEN str
                ELSE StringVisitEnum(str.v, visitor, visit(str.e, "visit_enum", value))
          IN  VisitString(Try(get_value_string(typ.e, value)))
        ELSE VisitEnum(value, visitor, visit(typ.e, "visit_enum", value))
  IN  Visit(Try(typeof_value(e, value)))

Deserialize(ty, value, e) ==
  CASE ty.k = "bool" -> deserialize_bool(value, e)
    [] ty.k = "int" -> DeserializeInt(ty.w, value, e)
    [] ty.k = "f64" -> deserialize_f64(value, e)
    [] ty.k = "String" -> deserialize_string(value, e)
    [] ty.k = "ByteBuf" -> deserialize_byte_buf(value, e)
    [] ty.k = "unit" -> deserialize_unit(value, e)
    [] ty.k = "unit_struct" -> deserialize_unit_struct(value, e)
    [] ty.k = "Option" -> deserialize_option(value, ty, e)
    [] ty.k = "Vec" -> deserialize_seq(value, ty, e)
    [] ty.k = "tuple" -> deserialize_tuple(value, ty, e)
    [] ty.k = "map" -> deserialize_map(value, ty, e)
    [] ty.k = "struct" -> deserialize_struct(value, ty, e)
    [] ty.k = "enum" -> deserialize_enum(value, ty, e)
    [] ty.k = "Value" -> deserialize_any(value, ty, e)
    [] ty.k = "identifier" -> deserialize_identifier(value, ty, e)
    [] ty.k = "IgnoredAny" -> deserialize_ignored_any(value, e)

\* mod.rs: from_value
from_value(e, ty, value) == Deserialize(ty, value, e)

(***************************************************************************)
(* The inputs the model draws.                                             *)
(***************************************************************************)
Pow2_31 == Mag(0, 2^7, 0)
Pow2_32 == Mag(0, 2^8, 0)
Pow2_63 == Mag(2^15, 0, 0)
Pow2_64 == Mag(2^16, 0, 0)

\* Doubles around the ends of every integer type (each one a value an f64
\* can hold), some fractions, and the non-finite ones.
DoubleSamples ==
  {Dbl(neg, Mag(0, 0, c), 0) : neg \in BOOLEAN,
     c \in {0, 1, 3, 4, 127, 128, 129, 255, 256, 32767, 32768, 32769, 65535, 65536}}
  \cup {Dbl(neg, Mag(0, 0, c), f) : neg \in BOOLEAN, c \in {0, 3, 127, 128, 255}, f \in {5, 7}}
  \cup {Dbl(neg, m, 0) : neg \in BOOLEAN,
          m \in {Mag(0, 2^7 - 1, LimbMax), Pow2_31, MagInc(Pow2_31),
                 Mag(0, 2^8 - 1, LimbMax), Pow2_32, Pow2_53,
                 Mag(2^15 - 1, LimbMax, LimbBase - 2^10), Pow2_63, Mag(2^15, 0, 2^11),
                 Mag(2^16 - 1, LimbMax, LimbBase - 2^11), Pow2_64, Mag(2^16, 0, 2^12)}}
  \cup {Dbl(neg, Mag(0, 2^7 - 1, LimbMax), 5) : neg \in BOOLEAN}
  \cup {Dbl(TRUE, Pow2_31, 5), NaN, Inf(FALSE), Inf(TRUE)}

\* Integers of type w: the ends of the type and of the exact range of f64
IntSamples(w) ==
  {n \in {MkInt(neg, m) : neg \in BOOLEAN,
            m \in {MagZero, Mag(0, 0, 1), Mag(0, 0, 2^7), Pow2_31, Pow2_53, MagInc(Pow2_53),
                   MaxMag(w), MinMag(w)}} : InRange(n, w)}

StatusSamples == {"PendingException", "GenericFailure"}

Color == TEnum(<<VUnit("Red"), VUnit("Blue")>>)
Shape == TEnum(<<VStruct("Circle", <<Field("radius", TF64)>>),
                 VTuple("Pair", <<TF64, TBool>>),
                 VNewtype("Wrap", TString),
                 VUnit("Red")>>)
Pokemon == TStruct(<<Field("name", TString), Field("candy_count", TOption(TF64)),
                     Field("weaknesses", TVec(Color))>>)

EncodeTypes ==
  {TBool, TF64, TString, TByteBuf, TOption(TF64), TOption(TOption(TBool)),
   TOption(TUnit), TUnitStruct, TVec(TF64), TVec(TOption(TString)), Pokemon, Color,
   Shape}
  \cup {TInt(w) : w \in IntTypes}

RECURSIVE Product(_)
\* the sequences whose i-th element is drawn from sets[i]
Product(sets) ==
  IF sets = <<>> THEN {<<>>}
  ELSE {<<x>> \o rest : x \in Head(sets), rest \in Product(Tail(sets))}

RECURSIVE ValuesOf(_)
\* the values of a type the model draws
ValuesOf(ty) ==
  CASE ty.k = "bool" -> {RBool(b) : b \in BOOLEAN}
    [] ty.k = "int" -> {RInt(n) : n \in IntSamples(ty.w)}
    [] ty.k = "f64" -> {RF64(Dbl(FALSE, m, 0)) : m \in {MagZero, Mag(0, 0, 2), Pow2_53}}
    [] ty.k = "String" -> {RString(str) : str \in {"", "a"}}
    [] ty.k = "ByteBuf" -> {RByteBuf(b) : b \in {<<>>, <<0, 255>>}}
    [] ty.k = "unit" -> {RUnit}
    [] ty.k = "unit_struct" -> {RUnit}
    [] ty.k = "Option" -> {RNone} \cup {RSome(x) : x \in ValuesOf(ty.of)}
    [] ty.k = "Vec" ->
         {RVec(items) : items \in
            UNION {Product([i \in 1..n |-> ValuesOf(ty.of)]) : n \in 0..MaxLen}}
    [] ty.k = "tuple" ->
         {RTuple(items) : items \in
            Product([i \in 1..Len(ty.elems) |-> ValuesOf(ty.elems[i])])}
    [] ty.k = "struct" ->
         {RStruct(vals) : vals \in
            Product([i \in 1..Len(ty.fields) |-> ValuesOf(ty.fields[i].ty)])}
    [] ty.k = "enum" ->
         UNION {LET variant == ty.variants[i]
                    payloads ==
                      CASE variant.vk = "unit" -> {RUnit}
                        [] variant.vk = "newtype" -> ValuesOf(variant.of)
                        [] variant.vk = "tuple" -> ValuesOf(TTuple(variant.elems))
                        [] variant.vk = "struct" -> ValuesOf(TStruct(variant.fields))
                IN  {RVariant(variant.name, p) : p \in payloads}
                : i \in 1..Len(ty.variants)}

\* The objects the decoder is given: the wire forms of the variants of
\* Shape, a unit variant spelled as an object, a buffer and an empty object.
SampleHeap ==
  <<JsObject(<<Prop("Circle", Ref(2))>>),
    JsObject(<<Prop("radius", JsNum(Dbl(FALSE, Mag(0, 0, 2), 0)))>>),
    JsObject(<<Prop("Pair", Ref(4))>>),
    JsArray(<<JsNum(Dbl(FALSE, Mag(0, 0, 2), 0)), JsBool(TRUE)>>),
    JsObject(<<Prop("Wrap", JsStr("a"))>>),
    JsObject(<<Prop("Red", JsNull)>>),
    JsArrayBuffer(<<0, 255>>),
    JsObject(<<>>)>>

JsSamples ==
  {Undefined, JsNull, JsBool(TRUE), JsBool(FALSE), JsNum(Dbl(FALSE, MagZero, 0)),
   JsNum(Dbl(FALSE, Mag(0, 0, 3), 7)), JsStr("a"), JsStr("Red"), JsStr("Circle"),
   JsOther("Function"), JsOther("Symbol"), JsOther("External"), JsOther("BigInt")}
  \cup {Ref(id) : id \in 1..Len(SampleHeap)}

DecodeTypes ==
  {TValue, TBool, TF64, TString, TByteBuf, TUnit, TUnitStruct, TOption(TBool),
   TOption(TValue),
   TOption(TOption(TF64)), TOption(Shape), TVec(TValue), Color, Shape}

\* At most one N-API call of an operation is made to fail: the at-th one,
\* with status st (at = 0: none).
Injections ==
  {[at |-> 0, st |-> "Ok"]}
  \cup {[at |-> i, st |-> st] : i \in 1..MaxFailAt, st \in StatusSamples}

\* the inputs of from_value: every sample under every type, and every sample
\* double under every integer type
DecodeInputs ==
  {[ty |-> ty, value |-> value] : ty \in DecodeTypes, value \in JsSamples}
  \cup {[ty |-> TInt(w), value |-> JsNum(d)] : w \in IntTypes, d \in DoubleSamples}

\* the inputs of a transcoding: a double read as an integer, and an integer
\* of one width read as another
TranscodeInputs ==
  {[ty |-> TF64, v |-> RF64(d), to |-> TInt(w)] : w \in IntTypes, d \in DoubleSamples}
  \cup UNION {{[ty |-> TInt(w), v |-> RInt(n), to |-> TInt(to)] :
                 n \in IntSamples(w), to \in IntTypes} : w \in IntTypes}

\* the runtime, with the injection counted from the calls made so far
Arm(e, inj) ==
  [e EXCEPT !.failAt = IF inj.at = 0 THEN 0 ELSE Len(e.log) + inj.at,
            !.failSt = inj.st]

Outcome(r) == [ok |-> r.ok, v |-> r.v]
Idle == [f |-> "idle"]

(***************************************************************************)
(* Calls of the two entry points (mod.rs).  Each call runs in a runtime of *)
(* its own; op records the call, res its result and env the runtime it     *)
(* left behind.                                                            *)
(***************************************************************************)
\* to_value(env, &v) for v: ty
ToValue(ty, v, inj) ==
  /\ op.f = "idle"
  /\ LET Return(r) ==
           /\ op' = [f |-> "to_value", ty |-> ty, v |-> v, inj |-> inj]
           /\ res' = Outcome(r)
           /\ env' = r.e
     IN  Return(to_value(NewEnv(<<>>, inj.at, inj.st), ty, v))
  /\ UNCHANGED <<sess, hist>>

\* from_value::<ty>(env, value)
FromValue(ty, value, inj) ==
  /\ op.f = "idle"
  /\ LET Return(r) ==
           /\ op' = [f |-> "from_value", ty |-> ty, value |-> value, inj |-> inj]
           /\ res' = Outcome(r)
           /\ env' = r.e
     IN  Return(from_value(NewEnv(SampleHeap, inj.at, inj.st), ty, value))
  /\ UNCHANGED <<sess, hist>>

\* from_value::<to>(env, to_value(env, &v)?) for v: ty
Transcode(ty, v, to) ==
  /\ op.f = "idle"
  /\ LET Decode(enc) ==
           LET Return(r) ==
                 /\ op' = [f |-> "transcode", ty |-> ty, v |-> v, to |-> to,
                           encoded |-> enc.ok, wire |-> enc.v]
                 /\ res' = Outcome(r)
                 /\ env' = r.e
           IN  Return(IF enc.ok THEN from_value(enc.e, to, enc.v) ELSE enc)
     IN  Decode(to_value(NewEnv(<<>>, 0, "Ok"), ty, v))
  /\ UNCHANGED <<sess, hist>>

\* from_value::<ty>(env, to_value(env, &v)?) for v: ty
RoundTrip(ty, v) ==
  /\ op.f = "idle"
  /\ LET Decode(enc) ==
           LET Return(r) ==
                 /\ op' = [f |-> "roundtrip", ty |-> ty, v |-> v,
                           encoded |-> enc.ok, wire |-> enc.v]
                 /\ res' = Outcome(r)
                 /\ env' = r.e
           IN  Return(IF enc.ok THEN from_value(enc.e, ty, enc.v) ELSE enc)
     IN  Decode(to_value(NewEnv(<<>>, 0, "Ok"), ty, v))
  /\ UNCHANGED <<sess, hist>>

(***************************************************************************)
(* The hand-off of a result to the host (result/mod.rs).                   *)
(***************************************************************************)
Throw == [kind |-> "Throw"]

\* Context::throw_error(msg): raises a new Error with that message, which
\* leaves the exception pending, and returns Err(Throw)
throw_error(e, msg) ==
  Err(Throw, [e EXCEPT !.pending = TRUE, !.thrown = Append(@, msg)])

\* a hand-off that raises a new exception for every error
or_throw_Always(r, cx) ==
  IF r.ok THEN Ok(r.v, cx) ELSE throw_error(cx, to_string(r.v))

\* impl ResultExt<T> for Result<T, SerdeError> :: or_throw
or_throw(r, cx) ==
  IF r.ok THEN Ok(r.v, cx)
  ELSE IF is_exception_pending(r.v) THEN Err(Throw, cx)
  ELSE throw_error(cx, to_string(r.v))

\* result.or_throw(&mut cx), for the result of the call just made
OrThrow ==
  /\ op.f \in {"to_value", "from_value", "transcode", "roundtrip"}
  /\ LET Return(r) ==
           /\ op' = [f |-> "or_throw", of |-> res, was |-> env]
           /\ res' = Outcome(r)
           /\ env' = r.e
     IN  Return(or_throw(res, env))
  /\ UNCHANGED <<sess, hist>>

Init ==
  /\ op = Idle
  /\ res = Outcome(Ok(RUnit, NewEnv(<<>>, 0, "Ok")))
  /\ env = NewEnv(<<>>, 0, "Ok")
  /\ sess = [kind |-> "none"]
  /\ hist = <<>>

Next ==
  \/ \E ty \in EncodeTypes : \E v \in ValuesOf(ty) : \E inj \in Injections :
       ToValue(ty, v, inj)
  \/ \E in \in DecodeInputs : \E inj \in Injections :
       FromValue(in.ty, in.value, inj)
  \/ \E in \in TranscodeInputs : Transcode(in.ty, in.v, in.to)
  \/ \E ty \in EncodeTypes : \E v \in ValuesOf(ty) :
       RoundTrip(ty, v)
  \/ OrThrow

Spec == Init /\ [][Next]_vars

(***************************************************************************)
(* Map sessions.  deserialize_map hands the visitor an ObjectAccessor and  *)
(* serialize_map hands the caller an ObjectSerializer; the caller then     *)
(* makes the calls it likes, and JavaScript may change the object between  *)
(* two calls of the accessor.  sess holds the accessor or serializer, hist *)
(* the keys the accessor has yielded.                                      *)
(***************************************************************************)
SessionHeap ==
  <<JsObject(<<Prop("a", JsNum(Dbl(FALSE, Mag(0, 0, 1), 0))), Prop("b", JsBool(TRUE))>>),
    JsObject(<<>>),
    JsObject(<<Prop("b", JsStr("a")), Prop("1", JsNull)>>)>>

\* ObjectAccessor::new(env, object), as deserialize_map calls it
OpenMapAccess(object, inj) ==
  /\ op.f = "idle"
  /\ LET Return(e0, r) ==
           /\ op' = [f |-> "ObjectAccessor::new", object |-> object, inj |-> inj]
           /\ res' = [ok |-> r.ok, v |-> IF r.ok THEN TRUE ELSE r.v]
           /\ env' = r.e
           /\ sess' = IF r.ok
                        THEN [kind |-> "ObjectAccessor", s |-> r.v, calls |-> 0,
                              keyed |-> 0, muts |-> 0, keys0 |-> OwnKeys(e0, object)]
                        ELSE [kind |-> "closed"]
     IN  Return(NewEnv(SessionHeap, inj.at, inj.st),
                ObjectAccessor_new(NewEnv(SessionHeap, inj.at, inj.st), object))
  /\ hist' = <<>>

\* MapAccess::next_key_seed for a String key
NextKey(inj) ==
  /\ sess.kind = "ObjectAccessor" /\ sess.calls < MaxCalls
  /\ LET Return(r) ==
           /\ op' = [f |-> "next_key_seed", log |-> Len(env.log), keyed |-> sess.keyed,
                    prev |-> op.f]
           /\ res' = Outcome(r)
           /\ env' = r.e
           /\ sess' = [sess EXCEPT !.s = r.s, !.calls = @ + 1, !.keyed = @ + 1]
           /\ hist' = IF r.ok /\ r.v # <<>> THEN Append(hist, r.v[1].s) ELSE hist
     IN  Return(MapAccess_next_key_seed(sess.s, TString, Arm(env, inj)))

\* MapAccess::next_value_seed for a value of any shape
NextValue(inj) ==
  /\ sess.kind = "ObjectAccessor" /\ sess.calls < MaxCalls
  /\ LET Return(r) ==
           /\ op' = [f |-> "next_value_seed", log |-> Len(env.log), keyed |-> sess.keyed,
                    prev |-> op.f]
           /\ res' = Outcome(r)
           /\ env' = r.e
           /\ sess' = [sess EXCEPT !.s = r.s, !.calls = @ + 1]
     IN  Return(MapAccess_next_value_seed(sess.s, TValue, Arm(env, inj)))
  /\ hist' = hist

\* JavaScript adds, deletes or moves a property of the object being read
Mutate ==
  /\ sess.kind = "ObjectAccessor" /\ sess.muts < MaxMutations
  /\ LET id == sess.s.object.id
         props == env.heap[id].props
     IN  \E after \in {SetProp(props, k, JsNull) : k \in {"c", "0"}}
                      \cup {DelProp(props, k) : k \in {"a", "b"}}
                      \cup {IF props = <<>> THEN props ELSE Append(Tail(props), Head(props))} :
           /\ after # props
           /\ env' = [env EXCEPT !.heap[id].props = after]
  /\ sess' = [sess EXCEPT !.muts = @ + 1]
  /\ UNCHANGED <<op, res, hist>>

\* Serializer::serialize_map(None)
OpenMapSerializer(inj) ==
  /\ op.f = "idle"
  /\ LET Return(r) ==
           /\ op' = [f |-> "serialize_map", inj |-> inj]
           /\ res' = [ok |-> r.ok, v |-> IF r.ok THEN TRUE ELSE r.v]
           /\ env' = r.e
           /\ sess' = IF r.ok
                        THEN [kind |-> "ObjectSerializer", s |-> r.v, calls |-> 0,
                              keyed |-> 0]
                        ELSE [kind |-> "closed"]
     IN  Return(serialize_map(NewEnv(<<>>, inj.at, inj.st)))
  /\ hist' = <<>>

\* SerializeMap::serialize_key
SerializeKey(ty, key, inj) ==
  /\ sess.kind = "ObjectSerializer" /\ sess.calls < MaxCalls
  /\ LET Return(r) ==
           /\ op' = [f |-> "serialize_key", log |-> Len(env.log), keyed |-> sess.keyed,
                    prev |-> op.f]
           /\ res' = Outcome(r)
           /\ env' = r.e
           /\ sess' = [sess EXCEPT !.s = r.s, !.calls = @ + 1, !.keyed = @ + 1]
     IN  Return(SerializeMap_serialize_key(sess.s, ty, key, Arm(env, inj)))
  /\ hist' = hist

\* SerializeMap::serialize_value
SerializeValue(ty, value, inj) ==
  /\ sess.kind = "ObjectSerializer" /\ sess.calls < MaxCalls
  /\ LET Return(r) ==
           /\ op' = [f |-> "serialize_value", log |-> Len(env.log), keyed |-> sess.keyed,
                    prev |-> op.f]
           /\ res' = Outcome(r)
           /\ env' = r.e
           /\ sess' = [sess EXCEPT !.s = r.s, !.calls = @ + 1]
     IN  Return(SerializeMap_serialize_value(sess.s, ty, value, Arm(env, inj)))
  /\ hist' = hist

\* SerializeMap::serialize_entry
SerializeEntry(key, ty, value, inj) ==
  /\ sess.kind = "ObjectSerializer" /\ sess.calls < MaxCalls
  /\ LET Return(r) ==
           /\ op' = [f |-> "serialize_entry", log |-> Len(env.log), keyed |-> sess.keyed,
                     prev |-> op.f, key |-> key, ty |-> ty, value |-> value,
                     s0 |-> sess.s, e0 |-> Arm(env, inj)]
           /\ res' = Outcome(r)
           /\ env' = r.e
           /\ sess' = [sess EXCEPT !.s = r.s, !.calls = @ + 1]
     IN  Return(SerializeMap_serialize_entry(sess.s, TString, key, ty, value,
                                             Arm(env, inj)))
  /\ hist' = hist

\* SerializeStruct::serialize_field
SerializeField(key, ty, value, inj) ==
  /\ sess.kind = "ObjectSerializer" /\ sess.calls < MaxCalls
  /\ LET Return(r) ==
           /\ op' = [f |-> "serialize_field", log |-> Len(env.log), keyed |-> sess.keyed,
                     prev |-> op.f, key |-> RString(key), ty |-> ty, value |-> value,
                     s0 |-> sess.s, e0 |-> Arm(env, inj)]
           /\ res' = Outcome(r)
           /\ env' = r.e
           /\ sess' = [sess EXCEPT !.s = r.s, !.calls = @ + 1]
     IN  Return(SerializeStruct_serialize_field(sess.s, key, ty, value, Arm(env, inj)))
  /\ hist' = hist

NextMap ==
  \/ \E id \in 1..Len(SessionHeap) : \E inj \in Injections : OpenMapAccess(Ref(id), inj)
  \/ \E inj \in Injections : NextKey(inj)
  \/ \E inj \in Injections : NextValue(inj)
  \/ Mutate
  \/ \E inj \in Injections : OpenMapSerializer(inj)
  \/ \E key \in {RString("a"), RString("b")} : \E inj \in Injections :
       SerializeKey(TString, key, inj)
  \/ \E ty \in {TBool, TOption(TF64)} : \E value \in ValuesOf(ty) : \E inj \in Injections :
       SerializeValue(ty, value, inj)
  \/ \E key \in {RString("a"), RString("b")} : \E value \in ValuesOf(TOption(TBool)) :
       \E inj \in Injections : SerializeEntry(key, TOption(TBool), value, inj)
  \/ \E key \in {"a", "b"} : \E value \in ValuesOf(TBool) : \E inj \in Injections :
       SerializeField(key, TBool, value, inj)

SpecMap == Init /\ [][NextMap]_vars

(***************************************************************************)
(* Array sessions.  deserialize_seq hands the visitor an ArrayAccessor and *)
(* serialize_seq hands the caller an ArraySerializer; JavaScript may       *)
(* change the array between two calls of the accessor.  For an accessor    *)
(* hist holds the results of the calls that returned Ok: <<>> for None,    *)
(* <<v>> for Some(v).                                                      *)
(***************************************************************************)
SeqHeap ==
  <<JsArray(<<JsNum(Dbl(FALSE, Mag(0, 0, 1), 0)), JsBool(TRUE)>>),
    JsArray(<<>>),
    JsArray(<<JsStr("a")>>),
    JsObject(<<Prop("0", JsNull)>>)>>

\* ArrayAccessor::new(env, array), as deserialize_seq calls it
OpenSeqAccess(array, inj) ==
  /\ op.f = "idle"
  /\ LET Return(r) ==
           /\ op' = [f |-> "ArrayAccessor::new", array |-> array, inj |-> inj]
           /\ res' = [ok |-> r.ok, v |-> IF r.ok THEN TRUE ELSE r.v]
           /\ env' = r.e
           /\ sess' = IF r.ok
                        THEN [kind |-> "ArrayAccessor", s |-> r.v, calls |-> 0,
                              muts |-> 0, el0 |-> SeqHeap[array.id].el]
                        ELSE [kind |-> "closed"]
     IN  Return(ArrayAccessor_new(NewEnv(SeqHeap, inj.at, inj.st), array))
  /\ hist' = <<>>

\* SeqAccess::next_element_seed for an element of any shape
NextElement(inj) ==
  /\ sess.kind = "ArrayAccessor" /\ sess.calls < MaxCalls
  /\ LET Return(r) ==
           /\ op' = [f |-> "next_element_seed", log |-> Len(env.log),
                     index |-> sess.s.index]
           /\ res' = Outcome(r)
           /\ env' = r.e
           /\ sess' = [sess EXCEPT !.s = r.s, !.calls = @ + 1]
           /\ hist' = IF r.ok THEN Append(hist, r.v) ELSE hist
     IN  Return(SeqAccess_next_element_seed(sess.s, TValue, Arm(env, inj)))

\* JavaScript pushes an element onto the array being read, pops one or
\* empties it
MutateArray ==
  /\ sess.kind = "ArrayAccessor" /\ sess.muts < MaxMutations
  /\ LET id == sess.s.array.id
         el == env.heap[id].el
     IN  \E after \in {Append(el, JsNull), SubSeq(el, 1, Len(el) - 1), <<>>} :
           /\ after # el
           /\ env' = [env EXCEPT !.heap[id].el = after]
  /\ sess' = [sess EXCEPT !.muts = @ + 1]
  /\ UNCHANGED <<op, res, hist>>

\* Serializer::serialize_seq(len)
OpenSeqSerializer(len, inj) ==
  /\ op.f = "idle"
  /\ LET Return(r) ==
           /\ op' = [f |-> "serialize_seq", len |-> len, inj |-> inj]
           /\ res' = [ok |-> r.ok, v |-> IF r.ok THEN TRUE ELSE r.v]
           /\ env' = r.e
           /\ sess' = IF r.ok
                        THEN [kind |-> "ArraySerializer", s |-> r.v, calls |-> 0,
                              declared |-> len, written |-> <<>>]
                        ELSE [kind |-> "closed"]
     IN  Return(serialize_seq(NewEnv(<<>>, inj.at, inj.st), len))
  /\ hist' = <<>>

\* SerializeSeq::serialize_element; written lists the elements whose write
\* returned Ok
SerializeElement(ty, value, inj) ==
  /\ sess.kind = "ArraySerializer" /\ sess.calls < MaxCalls
  /\ LET Return(r) ==
           /\ op' = [f |-> "serialize_element", log |-> Len(env.log),
                     offset |-> sess.s.offset]
           /\ res' = Outcome(r)
           /\ env' = r.e
           /\ sess' = [sess EXCEPT !.s = r.s, !.calls = @ + 1,
                                   !.written = IF r.ok
                                                 THEN Append(@, [ty |-> ty, value |-> value])
                                                 ELSE @]
     IN  Return(SerializeSeq_serialize_element(sess.s, ty, value, Arm(env, inj)))
  /\ hist' = hist

\* SerializeSeq::end
EndSeq ==
  /\ sess.kind = "ArraySerializer"
  /\ LET Return(r) ==
           /\ op' = [f |-> "end", log |-> Len(env.log), offset |-> sess.s.offset]
           /\ res' = Outcome(r)
           /\ env' = r.e
     IN  Return(ArraySerializer_end(sess.s, env))
  /\ sess' = [sess EXCEPT !.kind = "ended"]
  /\ hist' = hist

NextSeq ==
  \/ \E id \in 1..Len(SeqHeap) : \E inj \in Injections : OpenSeqAccess(Ref(id), inj)
  \/ \E inj \in Injections : NextElement(inj)
  \/ MutateArray
  \/ \E len \in {<<>>, <<0>>, <<2>>} : \E inj \in Injections : OpenSeqSerializer(len, inj)
  \/ \E ty \in {TBool, TOption(TF64)} : \E value \in ValuesOf(ty) : \E inj \in Injections :
       SerializeElement(ty, value, inj)
  \/ EndSeq

SpecSeq == Init /\ [][NextSeq]_vars

\* the accessors of both kinds
NextAccess == NextSeq \/ NextMap

SpecAccess == Init /\ [][NextAccess]_vars

(***************************************************************************)
(* Properties of the entry points.                                         *)
(***************************************************************************)
\* every N-API call issued so far returned Ok
AllOk(e) == \A i \in 1..Len(e.log) : e.log[i].st = "Ok"

RECURSIVE ExactNumbers(_)
\* every integer in v lies within +-2^53, where f64 is exact
ExactNumbers(v) ==
  CASE v.r = "int" -> MagLe(v.n.mag, Pow2_53)
    [] v.r = "Some" -> ExactNumbers(v.x)
    [] v.r \in {"Vec", "tuple"} -> \A i \in 1..Len(v.items) : ExactNumbers(v.items[i])
    [] v.r = "struct" -> \A i \in 1..Len(v.vals) : ExactNumbers(v.vals[i])
    [] v.r = "variant" -> ExactNumbers(v.payload)
    [] OTHER -> TRUE

\* C1: with the runtime answering every primitive as it should, a value
\* whose integers are exact in f64 -- bools, strings, buffers, options (one
\* nested in an option or wrapping unit included), sequences, structs and
\* enums -- comes back equal from to_value followed by from_value.
RoundTripEveryValue ==
  op.f = "roundtrip" /\ ExactNumbers(op.v) => res.ok /\ res.v = op.v

\* C2: decoding an enum from an object with first own key k yields the
\* variant named k, its payload decoded from the value stored under k.
EnumDecodesFromObject ==
  op.f = "from_value" /\ op.ty = Shape /\ op.inj.at = 0
  /\ op.value \in {Ref(1), Ref(3), Ref(5)}
    => /\ res.ok
       /\ res.v.r = "variant"
       /\ res.v.name = SampleHeap[op.value.id].props[1].key

RECURSIVE Reify(_, _)
\* the tree a value denotes in runtime e
Reify(e, v) ==
  IF v.t # "Ref" THEN v
  ELSE LET o == e.heap[v.id] IN
    CASE o.cls = "Object" ->
           [cls |-> "Object",
            props |-> [i \in 1..Len(o.props) |->
                         Prop(o.props[i].key, Reify(e, o.props[i].val))]]
      [] o.cls = "Array" ->
           [cls |-> "Array", el |-> [i \in 1..Len(o.el) |-> Reify(e, o.el[i])]]
      [] OTHER -> o

\* what to_value makes of v: ty in a runtime of its own
Encoding(ty, v) ==
  LET r == to_value(NewEnv(<<>>, 0, "Ok"), ty, v) IN Reify(r.e, r.v)

\* C3: a unit variant encodes to the String of its name; any other variant
\* to an Object with the one property name -> payload, the payload of a
\* tuple variant being the Array of its fields and that of a struct variant
\* the Object of its fields; end() hands back that wrapper.
EnumEncodeShape ==
  op.f = "to_value" /\ op.ty.k = "enum" /\ res.ok =>
    LET variant == op.ty.variants[IndexOf(VariantNames(op.ty), op.v.name)]
        payload ==
          CASE variant.vk = "newtype" -> Encoding(variant.of, op.v.payload)
            [] variant.vk = "tuple" -> Encoding(TTuple(variant.elems), op.v.payload)
            [] variant.vk = "struct" -> Encoding(TStruct(variant.fields), op.v.payload)
            [] OTHER -> JsNull
    IN  IF variant.vk = "unit" THEN res.v = JsStr(variant.name)
        ELSE /\ res.v.t = "Ref"
             /\ Reify(env, res.v) = [cls |-> "Object",
                                     props |-> <<Prop(variant.name, payload)>>]
             /\ variant.vk = "tuple" => payload.cls = "Array"
             /\ variant.vk = "struct" => payload.cls = "Object"

EnumEncodeTupleVariant ==
  /\ op.f = "to_value" /\ op.ty = Shape /\ res.ok
  /\ op.v = RVariant("Pair", RTuple(<<RF64(Dbl(FALSE, Mag(0, 0, 2), 0)), RBool(TRUE)>>))
  /\ env.heap[res.v.id].props[1].key = "Pair"

OutOfRange(d, T) ==
  \/ d.c # "fin"
  \/ ~d.neg /\ (MagLt(MaxMag(T), d.mag) \/ (d.mag = MaxMag(T) /\ d.frac > 0))
  \/ d.neg /\ (MagLt(MinMag(T), d.mag) \/ (d.mag = MinMag(T) /\ d.frac > 0))

DecodeRoundsToNearest ==
  op.f = "transcode" /\ op.ty = TF64 /\ op.v.d.frac # 0
  /\ ~OutOfRange(op.v.d, op.to.w)
    => res.ok /\ res.v.n = MkInt(op.v.d.neg,
                                 IF op.v.d.frac >= 5 THEN MagInc(op.v.d.mag)
                                 ELSE op.v.d.mag)

\* C6, amended: a Number with a fraction inside the range of the integer
\* type decodes to its integer part (truncation toward zero), so 3.7
\* decodes to 3 and -3.7 to -3 as i32.
DecodeTruncates ==
  op.f = "transcode" /\ op.ty = TF64 /\ op.v.d.frac # 0
  /\ ~OutOfRange(op.v.d, op.to.w)
    => res.ok /\ res.v.n = MkInt(op.v.d.neg, op.v.d.mag)

Decode37AsI32 ==
  /\ op.f = "transcode" /\ op.ty = TF64 /\ op.to = TInt("i32")
  /\ op.v.d = Dbl(FALSE, Mag(0, 0, 3), 7)
  /\ res = [ok |-> TRUE, v |-> RInt(MkInt(FALSE, Mag(0, 0, 3)))]

\* C7: decoding an option from Null or Undefined calls visit_none and is
\* never an error; from a value of any other kind it calls visit_some with
\* a deserializer over that same value.
OptionAcceptance ==
  op.f = "from_value" /\ op.ty.k = "Option"
  /\ env.log # <<>> /\ env.log[1].st = "Ok" =>
    IF op.value.t \in {"Null", "Undefined"}
      THEN /\ res = [ok |-> TRUE, v |-> RNone]
           /\ env.vis = <<[m |-> "visit_none", on |-> op.value]>>
      ELSE /\ env.vis # <<>>
           /\ env.vis[1] = [m |-> "visit_some", on |-> op.value]
           /\ res.ok => res.v.r = "Some"

OptionFromUndefined ==
  /\ op.f = "from_value" /\ op.ty = TOption(TBool) /\ op.value = Undefined
  /\ res.ok /\ env.vis # <<>>

\* C10: deserialize_any over a Function, Symbol, External or BigInt fails
\* with UnsupportedType carrying that tag and calls no visitor method.
AnyUnsupported ==
  op.f = "from_value" /\ op.ty = TValue
  /\ op.value.t \in {"Function", "Symbol", "External", "BigInt"}
  /\ env.log # <<>> /\ env.log[1].st = "Ok"
    => /\ res = [ok |-> FALSE, v |-> unsupported_type(op.value.t)]
       /\ env.vis = <<>>

AnyOverFunction ==
  /\ op.f = "from_value" /\ op.ty = TValue /\ op.value = JsOther("Function")
  /\ ~res.ok /\ res.v.kind = "UnsupportedType" /\ AllOk(env)

(***************************************************************************)
(* Properties of map sessions.                                             *)
(***************************************************************************)
\* C8: on a map session on which no key call has been made, the value call
\* (next_value_seed on the accessor, serialize_value on the serializer)
\* fails with MissingKey and issues no primitive, so reads or writes no
\* property.
ValueBeforeKey ==
  op.f \in {"next_value_seed", "serialize_value"} /\ op.keyed = 0
    => /\ ~res.ok /\ res.v = missing_key
       /\ Len(env.log) = op.log

ValueBeforeKeyOnAccessor ==
  /\ op.f = "next_value_seed" /\ op.keyed = 0 /\ sess.calls = 1
  /\ sess.keys0 # <<>> /\ ~res.ok

IsPrefix(p, q) == Len(p) <= Len(q) /\ \A i \in 1..Len(p) : p[i] = q[i]

\* C9: whatever JavaScript adds to, deletes from or moves in the object
\* once the accessor exists, the key calls yield the keys the object had at
\* construction, in their order, and then report exhaustion.
KeySetStable ==
  sess.kind = "ObjectAccessor" /\ AllOk(env) =>
    /\ IsPrefix(hist, sess.keys0)
    /\ op.f = "next_key_seed" /\ res.v = <<>> => hist = sess.keys0

KeysAfterMutation ==
  /\ sess.kind = "ObjectAccessor" /\ AllOk(env) /\ sess.muts > 0
  /\ OwnKeys(env, sess.s.object) # sess.keys0
  /\ Len(hist) = 2 /\ hist = sess.keys0

(***************************************************************************)
(* Properties of the error type and of the hand-off to the host.           *)
(***************************************************************************)
StatusNames ==
  {"InvalidArg", "ObjectExpected", "StringExpected", "NameExpected", "FunctionExpected",
   "NumberExpected", "BooleanExpected", "ArrayExpected", "GenericFailure",
   "PendingException", "Cancelled", "EscapeCalledTwice"}

\* one error or more of every kind
ErrorSamples ==
  {Custom("unknown variant"), Custom("PendingException"), missing_key, expected_null,
   expected_string}
  \cup {unsupported_type(typ) : typ \in {"Function", "Symbol", "External", "BigInt"}}
  \cup {FromFloatError(why, NaN) : why \in {"NotANumber", "NegOverflow", "PosOverflow"}}
  \cup {FromRangeErrorI64(why, IntMax("i64")) : why \in {"NegOverflow", "PosOverflow"}}
  \cup {FromPosOverflowU64(IntMax("u64")), FromPosOverflowUsize(IntMax("u64"))}
  \cup {FromStatus(st) : st \in StatusNames}

\* a failed N-API call whose status is PendingException
IsPendingFailure(err) == err.kind = "Napi" /\ err.st = "PendingException"

\* C11: is_exception_pending is TRUE exactly for a runtime failure whose
\* status is PendingException: FALSE for every other status and every other
\* kind of error, those of the samples and those the entry points return.
PendingOnlyForPendingStatus ==
  /\ \A err \in ErrorSamples : is_exception_pending(err) <=> IsPendingFailure(err)
  /\ (op.f = "or_throw" /\ ~op.of.ok) =>
       (is_exception_pending(op.of.v) <=> IsPendingFailure(op.of.v))

\* a call failed by PendingException has been handed to the host
PendingErrorHandedOff ==
  /\ op.f = "or_throw" /\ ~op.of.ok
  /\ op.of.v = FromStatus("PendingException")
  /\ is_exception_pending(op.of.v)

\* C12: or_throw returns an Ok value unchanged and leaves the runtime alone;
\* for an error of a pending exception it returns Throw and raises nothing;
\* for every other error it raises one exception whose message is the
\* error's display text.  No exception is raised while one is pending.
HandOff ==
  op.f = "or_throw" =>
    /\ op.of.ok => res = [ok |-> TRUE, v |-> op.of.v] /\ env = op.was
    /\ ~op.of.ok => res = [ok |-> FALSE, v |-> Throw]
    /\ (~op.of.ok /\ IsPendingFailure(op.of.v)) => env = op.was
    /\ (~op.of.ok /\ ~IsPendingFailure(op.of.v)) =>
         /\ env.thrown = Append(op.was.thrown, to_string(op.of.v))
         /\ env.pending
         /\ env.heap = op.was.heap /\ env.log = op.was.log
    /\ Len(env.thrown) > Len(op.was.thrown) => ~op.was.pending

\* a failure that is not a pending exception has been raised with its text
NewExceptionRaised ==
  /\ op.f = "or_throw" /\ ~op.of.ok
  /\ op.of.v = FromStatus("GenericFailure")
  /\ ~op.was.pending
  /\ env.thrown = << <<"Napi(", "GenericFailure", ")">> >>

(***************************************************************************)
(* Properties of one call of an entry point.                               *)
(***************************************************************************)
Calls == {"to_value", "from_value", "transcode", "roundtrip"}

\* C13: within one call, an N-API call that returns a status other than Ok
\* is the last one issued, and the call returns the Napi error of exactly
\* that status, which is_exception_pending reports when the status is
\* PendingException.
AbortOnFailure ==
  op.f \in Calls =>
    \A i \in 1..Len(env.log) :
      env.log[i].st # "Ok" =>
        /\ i = Len(env.log)
        /\ ~res.ok
        /\ res.v = [kind |-> "Napi", st |-> env.log[i].st]
        /\ env.log[i].st = "PendingException" => is_exception_pending(res.v)

\* the second N-API call of a decode fails with a pending exception
AbortedByPendingException ==
  /\ op.f = "from_value" /\ op.inj = [at |-> 2, st |-> "PendingException"]
  /\ Len(env.log) = 2 /\ env.log[1].st = "Ok" /\ env.log[2].st = "PendingException"
  /\ ~res.ok /\ res.v = [kind |-> "Napi", st |-> "PendingException"]

\* the visitor method deserialize_any reaches first for a tag
AnyVisit(tag) ==
  CASE tag \in {"Undefined", "Null"} -> "visit_unit"
    [] tag = "Boolean" -> "visit_bool"
    [] tag = "Number" -> "visit_f64"
    [] tag = "String" -> "visit_string"
    [] tag = "Object" -> "visit_map"
    [] OTHER -> "none"

\* C14: deserialize_any chooses by the tag typeof returns and by nothing
\* else: Undefined and Null are decoded as unit, a Boolean as bool, a Number
\* as f64 (never as an integer), a String as string and an Object as a map.
AnyDispatch ==
  (op.f = "from_value" /\ op.ty = TValue /\ op.inj.at = 0
     /\ AnyVisit(ValueType(op.value)) # "none") =>
    /\ env.log[1] = [name |-> "typeof", st |-> "Ok"]
    /\ env.vis # <<>>
    /\ env.vis[1] = [m |-> AnyVisit(ValueType(op.value)), on |-> op.value]
    /\ ValueType(op.value) \in {"Undefined", "Null"} => res = [ok |-> TRUE, v |-> RUnit]
    /\ ValueType(op.value) = "Boolean" => res = [ok |-> TRUE, v |-> RBool(op.value.b)]
    /\ ValueType(op.value) = "Number" => res = [ok |-> TRUE, v |-> RF64(op.value.d)]
    /\ ValueType(op.value) = "String" => res = [ok |-> TRUE, v |-> RString(op.value.s)]
    /\ ValueType(op.value) = "Object" => (res.ok => res.v.r = "map")

\* a Number with a fraction has gone through deserialize_any
AnyOverNumber ==
  /\ op.f = "from_value" /\ op.ty = TValue /\ op.inj.at = 0
  /\ op.value = JsNum(Dbl(FALSE, Mag(0, 0, 3), 7))
  /\ res = [ok |-> TRUE, v |-> RF64(Dbl(FALSE, Mag(0, 0, 3), 7))]

\* C15: deserialize_unit and deserialize_unit_struct succeed, by visit_unit,
\* exactly when the tag of the value is Null or Undefined, and fail with
\* ExpectedNull for every other tag.
UnitAcceptance ==
  (op.f = "from_value" /\ op.ty \in {TUnit, TUnitStruct} /\ op.inj.at = 0) =>
    IF ValueType(op.value) \in {"Null", "Undefined"}
      THEN /\ res = [ok |-> TRUE, v |-> RUnit]
           /\ env.vis = <<[m |-> "visit_unit", on |-> op.value]>>
      ELSE /\ res = [ok |-> FALSE, v |-> [kind |-> "ExpectedNull"]]
           /\ env.vis = <<>>

\* undefined has been decoded as a unit struct
UnitFromUndefined ==
  /\ op.f = "from_value" /\ op.ty = TUnitStruct /\ op.inj.at = 0
  /\ op.value = Undefined
  /\ res = [ok |-> TRUE, v |-> RUnit]

(***************************************************************************)
(* Properties of the sessions.                                             *)
(***************************************************************************)
\* C16: a value step is accepted only when a key is held and leaves none
\* held: a value step right after a value step, and one after the keys ran
\* out, fail with MissingKey, and the failed write sets no property.
ValueStepConsumesKey ==
  /\ (op.f = "next_value_seed" /\ res.ok) => sess.s.next = <<>>
  /\ (op.f = "next_value_seed" /\ op.prev = "next_value_seed") =>
       ~res.ok /\ res.v = missing_key
  /\ (op.f = "next_value_seed" /\ sess.s.next = <<>>) =>
       ~res.ok /\ res.v = missing_key
  /\ (op.f = "serialize_value" /\ res.ok) => sess.s.key = <<>>
  /\ (op.f = "serialize_value" /\ op.prev = "serialize_value") =>
       /\ ~res.ok /\ res.v = missing_key
       /\ Len(env.log) = op.log

\* what a Value seed makes of an element that is not a handle
ElementValue(v) == from_value(NewEnv(<<>>, 0, "Ok"), TValue, v).v

\* C17: with every N-API call succeeding, the accessor over an array whose
\* length was len at construction yields the elements 0 .. len-1 in
\* ascending order, once each, and None from call len+1 on, whatever
\* the length of the array has become since.
PullOrder ==
  (sess.kind = "ArrayAccessor" /\ AllOk(env)) =>
    /\ Len(hist) = sess.calls
    /\ sess.s.len = Len(sess.el0)
    /\ \A i \in 1..Len(hist) :
         IF i <= Len(sess.el0)
           THEN /\ hist[i] # <<>>
                /\ hist[i][1] \in {ElementValue(sess.el0[i]), RUnit}
                /\ sess.muts = 0 => hist[i][1] = ElementValue(sess.el0[i])
           ELSE hist[i] = <<>>

\* an array of two elements has grown after the first was read, and the
\* third call has returned None
PulledToTheEnd ==
  /\ sess.kind = "ArrayAccessor" /\ AllOk(env)
  /\ Len(sess.el0) = 2 /\ Len(env.heap[sess.s.array.id].el) = 3
  /\ Len(hist) = 3
  /\ hist[2] = <<RBool(TRUE)>>
  /\ hist[3] = <<>>

RECURSIVE Yield(_, _, _)
\* the number of elements the next `fuel` calls of next yield from s, when
\* no call fails
Yield(s, e, fuel) ==
  IF fuel = 0 THEN 0
  ELSE LET Count(n) == IF n.v = <<>> THEN 0 ELSE 1 + Yield(n.s, n.e, fuel - 1)
       IN  Count(ArrayAccessor_next(s, [e EXCEPT !.pending = FALSE, !.failAt = 0]))

\* C18: in an ArrayAccessor, and in the key cursor of an ObjectAccessor,
\* 0 <= index <= len, and the size hint len - index is the number of
\* elements (keys) the following calls of next still yield.
SizeHintExact ==
  /\ sess.kind = "ArrayAccessor" =>
       /\ 0 <= sess.s.index /\ sess.s.index <= sess.s.len
       /\ ArrayAccessor_size_hint(sess.s) = Yield(sess.s, env, sess.s.len + 1)
  /\ sess.kind = "ObjectAccessor" =>
       /\ 0 <= sess.s.keys.index /\ sess.s.keys.index <= sess.s.keys.len
       /\ ObjectAccessor_size_hint(sess.s) = Yield(sess.s.keys, env, sess.s.keys.len + 1)

\* one of two elements has been read
SizeHintHalfWay ==
  /\ sess.kind = "ArrayAccessor" /\ op.f = "next_element_seed"
  /\ sess.s.len = 2 /\ sess.s.index = 1
  /\ ArrayAccessor_size_hint(sess.s) = 1

\* the dynamic value a serializer makes of a value that needs no handle
ElementEncoding(w) == to_value(NewEnv(<<>>, 0, "Ok"), w.ty, w.value).v

\* the elements of an array of declared length n after the writes `written`
Placed(n, written) ==
  [i \in 1..(IF Len(written) > n THEN Len(written) ELSE n) |->
     IF i <= Len(written) THEN ElementEncoding(written[i]) ELSE Hole]

\* C19: the target Array is created once, with the declared length (0 when
\* none is declared); the offset starts at 0 and is the number of successful
\* writes; the i-th successful write stores the serialized element at index
\* i; end() returns the target, which holds the elements in write order.
ElementPlacement ==
  sess.kind \in {"ArraySerializer", "ended"} =>
    /\ sess.s.offset = Mag(0, 0, Len(sess.written))
    /\ sess.s.value = Ref(1)
    /\ Cardinality({i \in 1..Len(env.log) :
                      env.log[i].name = "create_array_with_length"}) = 1
    /\ env.heap[1] = JsArray(Placed(IF sess.declared = <<>> THEN 0 ELSE sess.declared[1],
                                    sess.written))
    /\ (op.f = "serialize_seq") => sess.s.offset = MagZero
    /\ (op.f = "serialize_element" /\ res.ok) =>
         /\ sess.s.offset = MagInc(op.offset)
         /\ env.heap[1].el[op.offset[3] + 1] =
              ElementEncoding(sess.written[Len(sess.written)])
    /\ (op.f = "serialize_element" /\ ~res.ok) => sess.s.offset = op.offset
    /\ (op.f = "end") => res = [ok |-> TRUE, v |-> sess.s.value]

\* two elements written into an array of unknown length, and end() called
TwoElementsPlaced ==
  /\ sess.kind = "ended" /\ sess.declared = <<>> /\ op.f = "end"
  /\ Len(sess.written) = 2
  /\ env.heap[1] = JsArray(<<JsBool(FALSE), JsNull>>)
  /\ res = [ok |-> TRUE, v |-> Ref(1)]

\* serialize_key(key) then serialize_value(value), begun with no key pending
\* in the serializer and the runtime that the call recorded in o began with
KeyThenValue(o) ==
  LET Value(k) ==
        IF ~k.ok THEN k ELSE SerializeMap_serialize_value(k.s, o.ty, o.value, k.e)
  IN  Value(SerializeMap_serialize_key([o.s0 EXCEPT !.key = <<>>], TString, o.key, o.e0))

\* C20: serialize_entry, and the serialize_field of a struct built on it,
\* sets the property key -> value on the target object, leaves the pending
\* key of serialize_key as it was, never fails with MissingKey, and leaves
\* the runtime as serialize_key(key) then serialize_value(value) leave it
\* when begun with no key pending.
EntryWithoutPhase ==
  op.f \in {"serialize_entry", "serialize_field"} =>
    /\ sess.s.key = op.s0.key
    /\ sess.s.value = op.s0.value
    /\ ~res.ok => res.v.kind = "Napi"
    /\ res.ok =>
         GetProp(env.heap[sess.s.value.id].props, op.key.s) =
           ElementEncoding([ty |-> op.ty, value |-> op.value])
    /\ res.ok = KeyThenValue(op).ok
    /\ env.heap = KeyThenValue(op).e.heap
    /\ env.log = KeyThenValue(op).e.log

\* an entry "b" has been written while the key "a" was pending
EntryBesidePendingKey ==
  /\ op.f = "serialize_entry" /\ res.ok
  /\ op.s0.key = <<JsStr("a")>> /\ op.key = RString("b")
  /\ sess.s.key = <<JsStr("a")>>
  /\ HasProp(env.heap[sess.s.value.id].props, "b")
  /\ ~HasProp(env.heap[sess.s.value.id].props, "a")

(***************************************************************************)
(* Properties of the shapes deserialize_any and deserialize_enum accept.   *)
(***************************************************************************)
\* the entries a Value seed makes of the keys and elements of an array
IndexEntries(el) ==
  [i \in 1..Len(el) |-> Entry(RString(IndexKey(i - 1)), ElementValue(el[i]))]

\* C21: deserialize_any never calls visit_seq or visit_byte_buf: an Array
\* or an ArrayBuffer reaching it has the tag Object, and is handed to the
\* map visitor through an ObjectAccessor over its own enumerable keys, the
\* index keys for an Array.
AnyNeverSeq ==
  (op.f = "from_value" /\ op.ty = TValue) =>
    /\ \A i \in 1..Len(env.vis) : env.vis[i].m \notin {"visit_seq", "visit_byte_buf"}
    /\ (op.inj.at = 0 /\ op.value.t = "Ref"
          /\ SampleHeap[op.value.id].cls \in {"Array", "ArrayBuffer"}) =>
         /\ env.vis[1] = [m |-> "visit_map", on |-> op.value]
         /\ env.log[2] = [name |-> "get_property_names", st |-> "Ok"]
         /\ res.ok
         /\ res.v = RMap(IF SampleHeap[op.value.id].cls = "Array"
                           THEN IndexEntries(SampleHeap[op.value.id].el)
                           ELSE <<>>)

\* the array [2, true] has been decoded as the map {"0": 2, "1": true}
ArrayDecodedAsMap ==
  /\ op.f = "from_value" /\ op.ty = TValue /\ op.inj.at = 0
  /\ op.value.t = "Ref" /\ SampleHeap[op.value.id].cls = "Array"
  /\ res.ok /\ res.v.r = "map" /\ Len(res.v.entries) = 2
  /\ res.v.entries[2] = Entry(RString("1"), RBool(TRUE))

\* the enum ty has a unit variant of this name
IsUnitVariant(ty, name) ==
  \E i \in 1..Len(ty.variants) :
    ty.variants[i].name = name /\ ty.variants[i].vk = "unit"

\* C22: when deserialize_enum takes the variant-access path -- the value is
\* not a String -- over an object whose first own key names a unit variant
\* of the static type, the result is the ExpectedString error, whatever the
\* payload stored under the key is.
UnitVariantNeedsString ==
  (/\ op.f = "from_value" /\ op.ty.k = "enum" /\ op.inj.at = 0
   /\ op.value.t = "Ref" /\ SampleHeap[op.value.id].cls = "Object"
   /\ Len(SampleHeap[op.value.id].props) > 0
   /\ IsUnitVariant(op.ty, SampleHeap[op.value.id].props[1].key)) =>
    ~res.ok /\ res.v = expected_string

(***************************************************************************)
(* Properties of a step that fails.                                        *)
(***************************************************************************)
\* the step taken is a call of f on the open session
Stepped(f) == op'.f = f /\ sess'.calls = sess.calls + 1

\* the step taken ended in a failed get_element
ReadFailed ==
  /\ ~res'.ok
  /\ Len(env'.log) > Len(env.log)
  /\ env'.log[Len(env'.log)].name = "get_element"
  /\ env'.log[Len(env'.log)].st # "Ok"

\* C23: a failed step leaves the state of its accessor or serializer as it
\* was: ArrayAccessor::next whose element read fails leaves index unchanged,
\* a failing serialize_element leaves offset unchanged, and a failing
\* serialize_key leaves the pending key unchanged.
FailedStepKeepsState ==
  [][/\ (Stepped("next_element_seed") /\ ReadFailed) =>
          sess'.s.index = sess.s.index
     /\ (Stepped("serialize_element") /\ ~res'.ok) =>
          sess'.s.offset = sess.s.offset
     /\ (Stepped("serialize_key") /\ ~res'.ok) =>
          sess'.s.key = sess.s.key]_<<op, res, env, sess, hist>>

\* serialize_key has failed while the key of an earlier serialize_key was
\* pending
KeyKeptAfterFailure ==
  /\ op.f = "serialize_key" /\ ~res.ok
  /\ op.keyed > 0 /\ sess.s.key # <<>>

====
